---- MODULE Spec2Model ----
(***************************************************************************)
(* Study-Buddy-Agent: the record stores (students, teachers, course        *)
(* recommendations), the derived weak-subject metric and the video link    *)
(* filter, modelled as state machines over the BigQuery tables.            *)
(*                                                                         *)
(* A table is a bag (multiset) of rows: BigQuery enforces no key and a     *)
(* SELECT without ORDER BY returns the matching rows in no fixed order.    *)
(* A Python dict is a function whose DOMAIN is the set of keys present.    *)
(* A timestamp string is the one-element tuple <<t>>, the stored TIMESTAMP *)
(* is the integer t, and Python's None for a timestamp is <<>>.  The time  *)
(* of a call is an input of the call.  A URL is the sequence of its        *)
(* pieces ("https://", "youtu.be", "/", ...), cut so that every substring  *)
(* the code searches for is a run of whole pieces.                         *)
(***************************************************************************)
EXTENDS Bags, FiniteSets, Integers, Sequences, TLC

VARIABLES
    students,   \* bag of rows of the table `students`
    teachers,   \* bag of rows of the table `teachers`
    recs,       \* bag of rows of the table `student_course_recommendations`
    calls,      \* the save_validated_videos calls in progress, by caller
    reach,      \* what requests.head answers for each URL
    results,    \* bag of rows of the table `student_test_results`
    tables,     \* the tables that exist in the dataset
    last        \* the last call made: its name, arguments and outcome

vars == <<students, teachers, recs, calls, reach, results, tables, last>>

----------------------------------------------------------------------------
(* Bounds of the model.                                                    *)

MaxStudents == 2        \* rows the students table may hold
MaxTeachers == 2        \* rows the teachers table may hold
MaxVideos == 2          \* candidates in one list of videos
MaxResults == 2        \* rows of the student_test_results table
MaxClass == 3           \* rows of the students table in the class averages

----------------------------------------------------------------------------
(* Program constants.                                                      *)

\* timedelta(hours=5, minutes=30), in ticks of half an hour
MaxScore == 100
ISTOffset == 11
\* get_weak_subjects(..., threshold: int = 60)
DefaultThreshold == 60
\* Python's None where an INT64 is expected (a NULL column)
None == -1
\* Python's None where a timestamp string is expected
NoneStr == <<>>
\* response.status_code == 200
StatusOK == 200
\* requests.head raised a requests.RequestException
RequestException == 0

\* the insertion order of the dict `subjects` in get_weak_subjects
SubjectOrder == <<"Language1", "Language2", "Language3", "Maths", "Science", "Social">>
Subjects == {SubjectOrder[i] : i \in 1..Len(SubjectOrder)}
RequiredFields == <<"RollNo", "Name", "Grade", "Language">>

----------------------------------------------------------------------------
(* Generic helpers.                                                        *)

\* dict.get(key, default)
Get(d, k, default) == IF k \in DOMAIN d THEN d[k] ELSE default

\* what the request client.create_table(table) meets: the service answers
\* it (with the new table, or with Conflict for a table that exists), or the
\* request fails for another reason
CreateOutcomes == {"answered", "failed"}

\* a create request that replaces a table that exists by an empty one
client_create_table_replace(dataset, name, outcome) ==
    IF outcome = "failed" THEN [dataset |-> dataset, raised |-> "Exception"]
    ELSE [dataset |-> [n \in DOMAIN dataset \cup {name} |->
                         IF n = name THEN EmptyBag ELSE dataset[n]],
          raised |-> ""]

\* client.create_table(table) on a dataset, a function from the names of
\* its tables to their rows: a new empty table, or an exception
client_create_table(dataset, name, outcome) ==
    IF outcome = "failed" THEN [dataset |-> dataset, raised |-> "Exception"]
    ELSE IF name \in DOMAIN dataset THEN [dataset |-> dataset, raised |-> "Conflict"]
    ELSE [dataset |-> [n \in DOMAIN dataset \cup {name} |->
                         IF n = name THEN EmptyBag ELSE dataset[n]],
          raised |-> ""]

\* _create_table / _create_table_if_not_exists: the request inside
\* try ... except Exception, which swallows whatever it raises
create_table_if_not_exists(dataset, name, outcome) ==
    LET r == client_create_table(dataset, name, outcome)
    IN  [dataset |-> r.dataset, raised |-> "", caught |-> r.raised]

\* the dict d restricted to the keys in K
Restrict(d, K) == [k \in (DOMAIN d) \cap K |-> d[k]]

\* the rows of a table that satisfy WHERE RollNo = @rollno
WhereRollNo(tbl, rollno) == {row \in BagToSet(tbl) : row.RollNo = rollno}

\* the sub-bag of the rows in S
RowsBag(tbl, S) == [row \in S \cap DOMAIN tbl |-> tbl[row]]

\* the number of rows of a table with the given RollNo
CountRollNo(tbl, rollno) == BagCardinality(RowsBag(tbl, WhereRollNo(tbl, rollno)))

\* str(row['TimeStamp']) and the parse of a timestamp string by BigQuery
Str(t) == <<t>>
ParseTimestamp(s) == IF s = NoneStr THEN None ELSE s[1]

\* datetime.utcnow().isoformat() at the time t, in ticks of half an hour
UtcNowIso(t) == Str(t)
\* datetime.now().isoformat(): the wall clock of the process, tz ticks ahead
\* of UTC, written without a zone; the store reads the string as UTC
LocalNowIso(t, tz) == Str(t + tz)
\* (datetime.utcnow() + timedelta(hours=5, minutes=30)).strftime(...)
IstNowStr(t) == Str(t + ISTOffset)

----------------------------------------------------------------------------
(* StudentDatabase (db_utils.py).                                          *)

\* student_exists: SELECT 1 ... WHERE RollNo = @rollno LIMIT 1
student_exists(tbl, rollno) == WhereRollNo(tbl, rollno) # {}

\* get_student builds this dict from results[0]
StudentDict(row) ==
    [RollNo |-> row.RollNo, Name |-> row.Name, Grade |-> row.Grade,
     Language |-> row.Language,
     Language1 |-> row.Language1, Language2 |-> row.Language2,
     Language3 |-> row.Language3, Maths |-> row.Maths,
     Science |-> row.Science, Social |-> row.Social,
     TimeStamp |-> IF row.TimeStamp # None THEN Str(row.TimeStamp) ELSE NoneStr]

\* the dicts get_student may return: results[0] of an unordered SELECT, or {}
EmptyDict == <<>>
get_student(tbl, rollno) ==
    IF WhereRollNo(tbl, rollno) # {}
    THEN {StudentDict(row) : row \in WhereRollNo(tbl, rollno)}
    ELSE {EmptyDict}

\* the first required field missing from the dict, or "" when none is
MissingRequired(student) ==
    IF \E i \in 1..Len(RequiredFields) : RequiredFields[i] \notin DOMAIN student
    THEN LET i == CHOOSE i \in 1..Len(RequiredFields) :
                    /\ RequiredFields[i] \notin DOMAIN student
                    /\ \A j \in 1..(i-1) : RequiredFields[j] \in DOMAIN student
         IN  RequiredFields[i]
    ELSE ""

\* a row in which a score that was not supplied is NULL
InsertRow_nullDefault(student, now) ==
    [RollNo |-> student["RollNo"],
     Name |-> Get(student, "Name", ""),
     Grade |-> Get(student, "Grade", 1),
     Language |-> Get(student, "Language", "English"),
     Language1 |-> Get(student, "Language1", None),
     Language2 |-> Get(student, "Language2", None),
     Language3 |-> Get(student, "Language3", None),
     Maths |-> Get(student, "Maths", None),
     Science |-> Get(student, "Science", None),
     Social |-> Get(student, "Social", None),
     TimeStamp |-> ParseTimestamp(Get(student, "TimeStamp", now))]

\* the row insert_student writes: the query parameters with their defaults
InsertRow(student, now) ==
    [RollNo |-> student["RollNo"],
     Name |-> Get(student, "Name", ""),
     Grade |-> Get(student, "Grade", 1),
     Language |-> Get(student, "Language", "English"),
     Language1 |-> Get(student, "Language1", 0),
     Language2 |-> Get(student, "Language2", 0),
     Language3 |-> Get(student, "Language3", 0),
     Maths |-> Get(student, "Maths", 0),
     Science |-> Get(student, "Science", 0),
     Social |-> Get(student, "Social", 0),
     TimeStamp |-> ParseTimestamp(Get(student, "TimeStamp", now))]

\* INSERT INTO students ... VALUES (...)
InsertInto(tbl, row) == tbl (+) SetToBag({row})

\* a merge that takes the TimeStamp of the caller when there is one
MergeStudent_keepsTimeStamp(student, existing, now) ==
    [RollNo |-> student["RollNo"],
     Name |-> Get(student, "Name", existing["Name"]),
     Grade |-> Get(student, "Grade", existing["Grade"]),
     Language |-> Get(student, "Language", existing["Language"]),
     Language1 |-> Get(student, "Language1", existing["Language1"]),
     Language2 |-> Get(student, "Language2", existing["Language2"]),
     Language3 |-> Get(student, "Language3", existing["Language3"]),
     Maths |-> Get(student, "Maths", existing["Maths"]),
     Science |-> Get(student, "Science", existing["Science"]),
     Social |-> Get(student, "Social", existing["Social"]),
     TimeStamp |-> IF Get(student, "TimeStamp", NoneStr) # NoneStr
                   THEN student["TimeStamp"] ELSE now]

\* the dict `updated` of update_student: the supplied fields over `existing`
MergeStudent(student, existing, now) ==
    [RollNo |-> student["RollNo"],
     Name |-> Get(student, "Name", existing["Name"]),
     Grade |-> Get(student, "Grade", existing["Grade"]),
     Language |-> Get(student, "Language", existing["Language"]),
     Language1 |-> Get(student, "Language1", existing["Language1"]),
     Language2 |-> Get(student, "Language2", existing["Language2"]),
     Language3 |-> Get(student, "Language3", existing["Language3"]),
     Maths |-> Get(student, "Maths", existing["Maths"]),
     Science |-> Get(student, "Science", existing["Science"]),
     Social |-> Get(student, "Social", existing["Social"]),
     TimeStamp |-> now]

\* an update that writes the merged row as a new row and keeps the old ones
UpdateWhereRollNo_append(tbl, updated) ==
    tbl (+) SetToBag({[updated EXCEPT !.TimeStamp = ParseTimestamp(updated.TimeStamp)]})

\* UPDATE students SET <every column> WHERE RollNo = @RollNo: every matching
\* row becomes the same new row
UpdateWhereRollNo(tbl, updated) ==
    LET hit == WhereRollNo(tbl, updated.RollNo)
        n == CountRollNo(tbl, updated.RollNo)
        new == [updated EXCEPT !.TimeStamp = ParseTimestamp(updated.TimeStamp)]
        rest == RowsBag(tbl, BagToSet(tbl) \ hit)
    IN  IF n = 0 THEN tbl ELSE rest (+) [r \in {new} |-> n]

\* the test of the loop of get_weak_subjects, `score > 0 and score <
\* threshold`: the comparison of a score that is None with 0 raises TypeError
IsWeak(score, threshold) ==
    IF score = None THEN [raised |-> "TypeError", ret |-> FALSE]
    ELSE [raised |-> "", ret |-> score > 0 /\ score < threshold]

\* the loop of get_weak_subjects over the dict get_student returned, from
\* the i-th subject on: the list it builds, or the TypeError of the first
\* score that is None (no list is returned then)
RECURSIVE WeakFrom(_, _, _)
WeakFrom(student, threshold, i) ==
    IF i > Len(SubjectOrder) THEN [raised |-> "", ret |-> <<>>]
    ELSE LET subject == SubjectOrder[i]
             score == Get(student, subject, 0)
             weak == IsWeak(score, threshold)
             rest == WeakFrom(student, threshold, i + 1)
         IN  IF weak.raised # "" THEN [raised |-> weak.raised, ret |-> <<>>]
             ELSE IF rest.raised # "" THEN rest
             ELSE [raised |-> "",
                   ret |-> (IF weak.ret THEN <<subject>> ELSE <<>>) \o rest.ret]

\* get_weak_subjects(rollno, threshold): [] when get_student returns {}
get_weak_subjects(student, threshold) ==
    IF student = EmptyDict THEN [raised |-> "", ret |-> <<>>]
    ELSE WeakFrom(student, threshold, 1)

\* an insert_student that refuses a RollNo that is already stored
insert_student_checked(tbl, student, now) ==
    IF MissingRequired(student) # ""
    THEN [tbl |-> tbl, raised |-> "ValueError"]
    ELSE IF student_exists(tbl, student["RollNo"])
    THEN [tbl |-> tbl, raised |-> "ValueError"]
    ELSE [tbl |-> InsertInto(tbl, InsertRow(student, now)), raised |-> ""]

\* insert_student(student): the table afterwards and the exception raised
insert_student(tbl, student, now) ==
    IF MissingRequired(student) # ""
    THEN [tbl |-> tbl, raised |-> "ValueError"]
    ELSE [tbl |-> InsertInto(tbl, InsertRow(student, now)), raised |-> ""]

\* an update_student that checks only that the dict has a RollNo
update_student_check_unchecked(tbl, student) ==
    IF "RollNo" \notin DOMAIN student THEN "ValueError" ELSE ""

\* update_student(student) up to the answer of student_exists: the
\* ValueError of a dict without RollNo and of a RollNo that has no row, ""
\* when the call goes on
update_student_check(tbl, student) ==
    IF "RollNo" \notin DOMAIN student THEN "ValueError"
    ELSE IF ~student_exists(tbl, student["RollNo"]) THEN "ValueError"
    ELSE ""

\* the building of `updated` from the dict get_student returned: existing["Name"]
\* raises KeyError when that dict is {}
update_student_merge(student, existing, now) ==
    IF existing = EmptyDict THEN [raised |-> "KeyError", updated |-> EmptyDict]
    ELSE [raised |-> "", updated |-> MergeStudent(student, existing, now)]

----------------------------------------------------------------------------
(* The tools of the root agent (agent.py).                                 *)

\* the dict save_student_data builds from its arguments
SaveDict(a, ist) ==
    [RollNo |-> a.rollno, Name |-> a.name, Grade |-> a.grade,
     Language |-> a.language,
     Language1 |-> a.language1, Language2 |-> a.language2,
     Language3 |-> a.language3, Maths |-> a.maths,
     Science |-> a.science, Social |-> a.social, TimeStamp |-> ist]

\* save_student_data: insert_student, then the dict it returns
save_student_data(tbl, a, ist, now) ==
    LET r == insert_student(tbl, SaveDict(a, ist), now)
    IN  IF r.raised # "" THEN [tbl |-> r.tbl, raised |-> r.raised, ret |-> <<>>]
        ELSE [tbl |-> r.tbl, raised |-> "",
              ret |-> [state |-> "success"]]

\* the dict update_student_data passes to update_student
UpdateDict(a, current_data) ==
    [RollNo |-> a.RollNo, Name |-> a.Name, Grade |-> a.Grade,
     Language |-> a.Language,
     Language1 |-> a.Language1, Language2 |-> a.Language2,
     Language3 |-> a.Language3, Maths |-> a.Maths,
     Science |-> a.Science, Social |-> a.Social,
     TimeStamp |-> Get(current_data, "TimeStamp", NoneStr)]

\* update_student_data after its own get_student: the error result when the
\* dict is empty, otherwise the dict it goes on to pass to update_student
update_student_data(a, current_data) ==
    IF current_data = EmptyDict
    THEN [ret |-> [status |-> "error"], updated_student |-> EmptyDict]
    ELSE [ret |-> <<>>, updated_student |-> UpdateDict(a, current_data)]

----------------------------------------------------------------------------
(* TeacherDatabase (db_utils.py).                                          *)

\* Python's None and the empty values for a str and a list argument
NoneName == "<None>"
NoneList == <<None>>
\* the truth value Python gives a str or a list argument in `if x:`
TruthyStr(x) == x # NoneName /\ x # ""
TruthyList(x) == x # NoneList /\ x # <<>>

\* json.dumps(grades) and json.loads(row["Grades"])
JsonDumps(grades) == <<grades>>
JsonLoads(text) == text[1]

\* the rows of the teachers table that satisfy WHERE StaffID = @staff_id
WhereStaffID(tbl, staff_id) == {row \in BagToSet(tbl) : row.StaffID = staff_id}

\* what client.query(...).result() does: it answers, or it raises
QueryOutcomes == {"answered", "raised"}

\* what client.insert_rows_json(...) does: it inserts the rows and returns
\* no errors, it returns errors and inserts nothing, or it raises
InsertOutcomes == {"inserted", "errors", "raised"}

\* what a request on the table meets: the request raises NotFound when the
\* table is not among the tables that exist
RequestOn(tbls, name, request) == IF name \in tbls THEN request ELSE "raised"

\* teacher_exists: SELECT COUNT(*) ... WHERE StaffID = @staff_id, count > 0;
\* `except Exception` turns a query that raises into False
teacher_exists(tbl, staff_id, query) ==
    IF query = "raised" THEN FALSE ELSE WhereStaffID(tbl, staff_id) # {}

\* save_teacher: insert_rows_json of one row, no existence check; the
\* failure results of `if errors` and of `except Exception`, with no row
\* inserted
save_teacher(tbl, staff_id, name, grades, subject, now, insert) ==
    IF insert = "raised"
    THEN [tbl |-> tbl,
          ret |-> [success |-> FALSE, message |-> "Error saving teacher"]]
    ELSE IF insert = "errors"
    THEN [tbl |-> tbl,
          ret |-> [success |-> FALSE, message |-> "Error inserting teacher"]]
    ELSE [tbl |-> tbl (+) SetToBag({[StaffID |-> staff_id, Name |-> name,
                                     Grades |-> JsonDumps(grades),
                                     Subject |-> subject,
                                     TimeStamp |-> ParseTimestamp(now)]}),
          ret |-> [success |-> TRUE,
                   message |-> "Teacher profile created successfully"]]

\* get_teacher: the dicts it may return (LIMIT 1 of an unordered SELECT);
\* None for no row and, by `except Exception`, for a query that raises
get_teacher(tbl, staff_id, query) ==
    IF query = "raised" THEN {EmptyDict}
    ELSE IF WhereStaffID(tbl, staff_id) # {}
    THEN {[staff_id |-> row.StaffID, name |-> row.Name,
           grades |-> JsonLoads(row.Grades), subject |-> row.Subject,
           timestamp |-> IF row.TimeStamp # None THEN Str(row.TimeStamp) ELSE NoneStr]
          : row \in WhereStaffID(tbl, staff_id)}
    ELSE {EmptyDict}

\* a SET list that takes every argument that is not None, empty or not
TeacherUpdates_emptyIncluded(name, grades, subject) ==
    (IF name # NoneName THEN {"Name"} ELSE {})
        \cup (IF grades # NoneList THEN {"Grades"} ELSE {})
        \cup (IF subject # NoneName THEN {"Subject"} ELSE {})

\* the SET list update_teacher builds: the columns with a truthy argument
TeacherUpdates(name, grades, subject) ==
    (IF TruthyStr(name) THEN {"Name"} ELSE {})
        \cup (IF TruthyList(grades) THEN {"Grades"} ELSE {})
        \cup (IF TruthyStr(subject) THEN {"Subject"} ELSE {})

\* an UPDATE that also moves the row to another StaffID
SetTeacherRow_rekeyed(row, updates, name, grades, subject, now) ==
    [StaffID |-> row.StaffID + 1,
     Name |-> IF "Name" \in updates THEN name ELSE row.Name,
     Grades |-> IF "Grades" \in updates THEN JsonDumps(grades) ELSE row.Grades,
     Subject |-> IF "Subject" \in updates THEN subject ELSE row.Subject,
     TimeStamp |-> ParseTimestamp(now)]

\* one row after UPDATE teachers SET <updates>, TimeStamp = CURRENT_TIMESTAMP()
SetTeacherRow(row, updates, name, grades, subject, now) ==
    [StaffID |-> row.StaffID,
     Name |-> IF "Name" \in updates THEN name ELSE row.Name,
     Grades |-> IF "Grades" \in updates THEN JsonDumps(grades) ELSE row.Grades,
     Subject |-> IF "Subject" \in updates THEN subject ELSE row.Subject,
     TimeStamp |-> ParseTimestamp(now)]

\* the bag that holds f(row) for every row of the bag b, with multiplicity
RECURSIVE MapBag(_, _, _, _, _, _)
MapBag(b, updates, name, grades, subject, now) ==
    IF BagToSet(b) = {} THEN EmptyBag
    ELSE LET row == CHOOSE r \in BagToSet(b) : TRUE
         IN  [r \in {SetTeacherRow(row, updates, name, grades, subject, now)} |-> b[row]]
                (+) MapBag(RowsBag(b, BagToSet(b) \ {row}),
                           updates, name, grades, subject, now)

\* update_teacher: "No fields to update" before any query; the failure
\* result of `except Exception` for an UPDATE that raises, with nothing
\* written; otherwise the UPDATE ... WHERE StaffID and success whatever the
\* number of rows it changed
update_teacher(tbl, staff_id, name, grades, subject, now, query) ==
    LET updates == TeacherUpdates(name, grades, subject)
        hit == WhereStaffID(tbl, staff_id)
    IN  IF updates = {}
        THEN [tbl |-> tbl,
              ret |-> [success |-> FALSE, message |-> "No fields to update"]]
        ELSE IF query = "raised"
        THEN [tbl |-> tbl,
              ret |-> [success |-> FALSE, message |-> "Error updating teacher"]]
        ELSE [tbl |-> RowsBag(tbl, BagToSet(tbl) \ hit)
                        (+) MapBag(RowsBag(tbl, hit), updates, name, grades, subject, now),
              ret |-> [success |-> TRUE,
                       message |-> "Teacher profile updated successfully!"]]

\* the rows of WHERE Grade = @grade with the IS NOT NULL test left out
ClassRows_withNull(tbl, grade, column_name) ==
    RowsBag(tbl, {row \in BagToSet(tbl) : row.Grade = grade})

\* the rows of WHERE Grade = @grade AND <column> IS NOT NULL
ClassRows(tbl, grade, column_name) ==
    RowsBag(tbl, {row \in BagToSet(tbl) :
                    row.Grade = grade /\ row[column_name] # None})

\* SUM(<column>) over a bag of rows, one copy of a row at a time
RECURSIVE SumColumn(_, _)
SumColumn(b, column_name) ==
    IF BagToSet(b) = {} THEN 0
    ELSE LET row == CHOOSE r \in BagToSet(b) : TRUE
         IN  row[column_name] + SumColumn(b (-) SetToBag({row}), column_name)

\* total / n rounded to the nearest hundredth of the exact quotient, a tie
\* going to the even hundredth whatever the float that holds the quotient
Round2_halfEven(total, n) ==
    LET q == (100 * total) \div n
        r == (100 * total) % n
    IN  IF 2 * r < n THEN q
        ELSE IF 2 * r > n THEN q + 1
        ELSE IF q % 2 = 0 THEN q ELSE q + 1

\* the bits of the significand of a FLOAT64
SignificandBits == 53

\* the number of bits of the integer m >= 0
RECURSIVE BitLength(_)
BitLength(m) == IF m = 0 THEN 0 ELSE 1 + BitLength(m \div 2)

\* the long division that gives the bits of a quotient below the point: r is
\* the remainder over n, `need` the bits of the significand still to come
\* (all of them until the first 1), `odd` whether the last bit was 1. The
\* result is the sign of (the FLOAT64 nearest to the quotient, ties to the
\* even significand) - (the quotient)
RECURSIVE FloatError(_, _, _, _)
FloatError(r, n, need, odd) ==
    IF r = 0 THEN 0
    ELSE IF need = 0
    THEN IF 2 * r < n THEN 0 - 1
         ELSE IF 2 * r > n THEN 1
         ELSE IF odd THEN 1 ELSE 0 - 1
    ELSE LET bit == (2 * r) \div n
         IN  FloatError((2 * r) % n, n,
                        IF need = SignificandBits /\ bit = 0 THEN need ELSE need - 1,
                        bit = 1)

\* the sign of AVG(<column>) - total / n: AVG is the FLOAT64 nearest to the
\* mean of the n INT64 scores whose sum is total
AvgError(total, n) ==
    FloatError(total % n, n, SignificandBits - BitLength(total \div n),
               (total \div n) % 2 = 1)

\* round(row["average_score"], 2) for total >= 0, as a number of hundredths.
\* Python rounds the float it is given, correctly: the result is the
\* hundredth nearest to the FLOAT64 and not to the mean, so a mean that lies
\* halfway between two hundredths goes to the side its FLOAT64 lies on, and
\* to the even hundredth only when the FLOAT64 is the mean itself
Round2(total, n) ==
    LET q == (100 * total) \div n
        r == (100 * total) % n
        e == AvgError(total, n)
    IN  IF 2 * r < n THEN q
        ELSE IF 2 * r > n THEN q + 1
        ELSE IF e > 0 THEN q + 1
        ELSE IF e < 0 THEN q
        ELSE IF q % 2 = 0 THEN q ELSE q + 1

\* the query of get_class_average and the dict built from its result, or
\* the failure result of `except Exception` for a query that raises;
\* average_score is given in hundredths
ClassStatistics(tbl, grade, subject, query) ==
    IF query = "raised"
    THEN [ret |-> [success |-> FALSE, message |-> "Error calculating class average"],
          queries |-> <<"SELECT students">>]
    ELSE LET rows == ClassRows(tbl, grade, subject)
             student_count == BagCardinality(rows)
             scores == {row[subject] : row \in BagToSet(rows)}
         IN  IF student_count > 0
             THEN [ret |-> [success |-> TRUE, grade |-> grade, subject |-> subject,
                            average_score |->
                                Round2(SumColumn(rows, subject), student_count),
                            student_count |-> student_count,
                            min_score |-> CHOOSE v \in scores : \A w \in scores : v <= w,
                            max_score |-> CHOOSE v \in scores : \A w \in scores : v >= w],
                   queries |-> <<"SELECT students">>]
             ELSE [ret |-> [success |-> FALSE, message |-> "No students found"],
                   queries |-> <<"SELECT students">>]

\* a get_class_average that runs the query before it looks at the subject
get_class_average_lateCheck(tbl, grade, subject, query) ==
    IF subject \notin Subjects
    THEN [ret |-> [success |-> FALSE, message |-> "Invalid subject"],
          queries |-> <<"SELECT students">>]
    ELSE ClassStatistics(tbl, grade, subject, query)

\* TeacherDatabase.get_class_average(grade, subject): the dict returned and
\* the queries issued
get_class_average(tbl, grade, subject, query) ==
    IF subject \notin Subjects
    THEN [ret |-> [success |-> FALSE, message |-> "Invalid subject"],
          queries |-> <<>>]
    ELSE ClassStatistics(tbl, grade, subject, query)

----------------------------------------------------------------------------
(* The link filter (subagents/course_validation_agent/agent.py).           *)

\* `pat in link`: the pieces of pat occur in link as one run
ContainsSeq(link, pat) ==
    \E i \in 1..(Len(link) - Len(pat) + 1) : SubSeq(link, i, i + Len(pat) - 1) = pat

\* link.find(pat): where the first occurrence starts
FirstIndex(link, pat) ==
    CHOOSE i \in 1..(Len(link) - Len(pat) + 1) :
        /\ SubSeq(link, i, i + Len(pat) - 1) = pat
        /\ \A j \in 1..(i - 1) : SubSeq(link, j, j + Len(pat) - 1) # pat

\* link.split(pat)[0] and link.split(pat)[1], for a link that contains pat
SplitHead(link, pat) ==
    IF ContainsSeq(link, pat) THEN SubSeq(link, 1, FirstIndex(link, pat) - 1) ELSE link
SplitSecond(link, pat) ==
    SplitHead(SubSeq(link, FirstIndex(link, pat) + Len(pat), Len(link)), pat)

\* values of video_link that are truthy and not a str: a number, on which
\* `"youtu.be/" in link` raises TypeError, and a list or a dict that holds
\* none of the strings looked for, on which the membership tests are False
NumberLink == <<"<number>">>
ListLink == <<"<list>">>
IsStr(link) == link \notin {NumberLink, ListLink}

\* the pieces links are written in that begin with the letters http
HttpPrefixed == {"http://", "https://", "httpx.", "http", "https"}

\* link.startswith("https://") and link.startswith("http")
StartsWithHttps(link) == Len(link) > 0 /\ link[1] = "https://"
StartsWithHttp(link) == Len(link) > 0 /\ link[1] \in HttpPrefixed

\* the URL has a scheme requests can send a request with
HasScheme(url) == Len(url) > 0 /\ url[1] \in {"http://", "https://"}

\* f"https://www.youtube.com/watch?v={video_id}"
WatchUrl(video_id) ==
    <<"https://", "www.", "youtube.com", "/", "watch", "?", "v=">> \o video_id

\* a normalization that keeps the query string of a short link in the video id
NormalizeLink_keepsQuery(link) ==
    IF ContainsSeq(link, <<"youtu.be", "/">>)
    THEN WatchUrl(SplitSecond(link, <<"youtu.be", "/">>))
    ELSE IF ContainsSeq(link, <<"youtube.com", "/", "watch">>) /\ ~StartsWithHttps(link)
    THEN IF StartsWithHttp(link) THEN link ELSE <<"https://">> \o link
    ELSE link

\* a normalization that takes the scheme off a link that starts with https://
NormalizeLink_stripsHttps(link) ==
    IF ContainsSeq(link, <<"youtu.be", "/">>)
    THEN WatchUrl(SplitHead(SplitSecond(link, <<"youtu.be", "/">>), <<"?">>))
    ELSE IF StartsWithHttps(link) THEN Tail(link)
    ELSE link

\* the normalized_link of filter_videos_with_valid_links
NormalizeLink(link) ==
    IF ContainsSeq(link, <<"youtu.be", "/">>)
    THEN WatchUrl(SplitHead(SplitSecond(link, <<"youtu.be", "/">>), <<"?">>))
    ELSE IF ContainsSeq(link, <<"youtube.com", "/", "watch">>) /\ ~StartsWithHttps(link)
    THEN IF StartsWithHttp(link) THEN link ELSE <<"https://">> \o link
    ELSE link

\* requests.head(url, allow_redirects=True, timeout=5): the status code, or
\* RequestException (MissingSchema for a URL without a scheme)
RequestsHead(url, head) == IF ~HasScheme(url) THEN RequestException ELSE head[url]

\* is_valid_youtube_link(url)
is_valid_youtube_link(url, head) ==
    IF url = <<>> \/ ~IsStr(url) THEN FALSE
    ELSE IF ~ContainsSeq(url, <<"youtube.com">>) /\ ~ContainsSeq(url, <<"youtu.be">>)
    THEN FALSE
    ELSE RequestsHead(url, head) = StatusOK

\* the loop of filter_videos_with_valid_links from the i-th candidate on:
\* the list returned, the input list as the loop has left it, the exception
RECURSIVE FilterLoop(_, _, _, _)
FilterLoop(videos, head, i, valid_videos) ==
    IF i > Len(videos)
    THEN [raised |-> "", ret |-> valid_videos, videos |-> videos]
    ELSE LET video == videos[i]
             link == Get(video, "video_link", <<>>)
         IN  IF link = <<>>
             THEN FilterLoop(videos, head, i + 1, valid_videos)
             ELSE IF link = NumberLink
             THEN [raised |-> "TypeError", ret |-> <<>>, videos |-> videos]
             ELSE IF is_valid_youtube_link(NormalizeLink(link), head)
             THEN LET kept == [video EXCEPT !["video_link"] = NormalizeLink(link)]
                  IN  FilterLoop([videos EXCEPT ![i] = kept], head, i + 1,
                                 Append(valid_videos, kept))
             ELSE FilterLoop(videos, head, i + 1, valid_videos)

\* a filter that puts each accepted candidate in front of the earlier ones
filter_videos_reversed(videos, head) ==
    LET r == FilterLoop(videos, head, 1, <<>>)
    IN  [r EXCEPT !.ret = [j \in 1..Len(r.ret) |-> r.ret[Len(r.ret) + 1 - j]]]

\* a filter that works on copies and leaves the dicts of its input alone
filter_videos_on_copies(videos, head) ==
    LET r == FilterLoop(videos, head, 1, <<>>)
    IN  [r EXCEPT !.videos = videos]

\* filter_videos_with_valid_links(videos)
filter_videos_with_valid_links(videos, head) == FilterLoop(videos, head, 1, <<>>)

----------------------------------------------------------------------------
(* StudentCourseRecommendationDatabase (course_validation_agent/courses_db.py) *)
(* and save_validated_videos.                                              *)

\* a dict that leaves the subject of the video out
CourseDict_dropsSubject(rollno, student_name, video) ==
    [RollNo |-> rollno,
     StudentName |-> student_name,
     VideoAuthorName |-> Get(video, "author_name", "Unknown"),
     VideoTitle |-> Get(video, "video_title", ""),
     VideoDescription |-> Get(video, "video_description", ""),
     VideoLink |-> Get(video, "video_link", <<>>),
     VideoLanguage |-> Get(video, "video_language", "English"),
     VideoSubject |-> ""]

\* the dict save_validated_videos passes to insert_recommendation
CourseDict(rollno, student_name, video) ==
    [RollNo |-> rollno,
     StudentName |-> student_name,
     VideoAuthorName |-> Get(video, "author_name", "Unknown"),
     VideoTitle |-> Get(video, "video_title", ""),
     VideoDescription |-> Get(video, "video_description", ""),
     VideoLink |-> Get(video, "video_link", <<>>),
     VideoLanguage |-> Get(video, "video_language", "English"),
     VideoSubject |-> Get(video, "video_subject", "")]

\* an insert that first removes the rows of the RollNo with the same link
insert_recommendation_dedup(tbl, course, t) ==
    RowsBag(tbl, {row \in BagToSet(tbl) :
                     row.RollNo # course["RollNo"]
                        \/ row.VideoLink # Get(course, "VideoLink", <<>>)})
        (+) SetToBag({[RollNo |-> course["RollNo"],
                       StudentName |-> Get(course, "StudentName", ""),
                       VideoAuthorName |-> Get(course, "VideoAuthorName", "Unknown"),
                       VideoLink |-> Get(course, "VideoLink", <<>>),
                       VideoLanguage |-> Get(course, "VideoLanguage", "English"),
                       VideoSubject |-> Get(course, "VideoSubject", ""),
                       VideoTitle |-> Get(course, "VideoTitle", ""),
                       VideoDescription |-> Get(course, "VideoDescription", ""),
                       TimeStamp |-> ParseTimestamp(UtcNowIso(t))]})

\* insert_recommendation(course): INSERT of one row stamped utcnow
insert_recommendation(tbl, course, t) ==
    tbl (+) SetToBag({[RollNo |-> course["RollNo"],
                       StudentName |-> Get(course, "StudentName", ""),
                       VideoAuthorName |-> Get(course, "VideoAuthorName", "Unknown"),
                       VideoLink |-> Get(course, "VideoLink", <<>>),
                       VideoLanguage |-> Get(course, "VideoLanguage", "English"),
                       VideoSubject |-> Get(course, "VideoSubject", ""),
                       VideoTitle |-> Get(course, "VideoTitle", ""),
                       VideoDescription |-> Get(course, "VideoDescription", ""),
                       TimeStamp |-> ParseTimestamp(UtcNowIso(t))]})

\* a delete that leaves the rows of the RollNo in place
delete_student_courses_nothing(tbl, rollno) == tbl

\* a delete whose WHERE clause is missing: it empties the table
delete_student_courses_all(tbl, rollno) == EmptyBag

\* delete_student_courses(rollno): DELETE ... WHERE RollNo = @rollno
delete_student_courses(tbl, rollno) ==
    RowsBag(tbl, BagToSet(tbl) \ WhereRollNo(tbl, rollno))

\* the order of the strings VideoSubject under ORDER BY
SubjectSort == <<"", "Language1", "Language2", "Language3", "Maths", "Science", "Social">>
SubjectRank(subject) == CHOOSE i \in 1..Len(SubjectSort) : SubjectSort[i] = subject

\* ORDER BY VideoSubject, TimeStamp DESC: the row a comes strictly before b
OrderedBefore(a, b) ==
    \/ SubjectRank(a.VideoSubject) < SubjectRank(b.VideoSubject)
    \/ /\ a.VideoSubject = b.VideoSubject
       /\ a.TimeStamp > b.TimeStamp

\* the bag b without one copy of the row
RemoveOne(b, row) == b (-) SetToBag({row})

\* the orders in which the query may return the rows of the bag
RECURSIVE OrderedResults(_)
OrderedResults(b) ==
    IF BagToSet(b) = {} THEN {<<>>}
    ELSE UNION {{<<row>> \o rest : rest \in OrderedResults(RemoveOne(b, row))}
                : row \in {r \in BagToSet(b) :
                              \A other \in BagToSet(b) : ~OrderedBefore(other, r)}}

\* the dict get_courses_for_student builds from a row
CourseOfRow(row) ==
    [RollNo |-> row.RollNo, StudentName |-> row.StudentName,
     VideoAuthorName |-> row.VideoAuthorName, VideoLink |-> row.VideoLink,
     VideoLanguage |-> row.VideoLanguage, VideoSubject |-> row.VideoSubject,
     VideoTitle |-> row.VideoTitle, VideoDescription |-> row.VideoDescription,
     TimeStamp |-> IF row.TimeStamp # None THEN Str(row.TimeStamp) ELSE NoneStr]

\* get_courses_for_student(rollno): the lists it may return
get_courses_for_student(tbl, rollno) ==
    {[i \in 1..Len(rows) |-> CourseOfRow(rows[i])]
        : rows \in OrderedResults(RowsBag(tbl, WhereRollNo(tbl, rollno)))}

\* display_student_tutorials: the message for no course, or the entries of
\* the listing, grouped by subject in the order of the query
RECURSIVE GroupBySubject(_)
GroupBySubject(courses) ==
    IF courses = <<>> THEN <<>>
    ELSE LET SameSubject(c) == c.VideoSubject = courses[1].VideoSubject
             OtherSubject(c) == c.VideoSubject # courses[1].VideoSubject
         IN  SelectSeq(courses, SameSubject)
                \o GroupBySubject(SelectSeq(courses, OtherSubject))
display_student_tutorials(courses) ==
    IF courses = <<>>
    THEN [found |-> FALSE, listing |-> <<>>]
    ELSE [found |-> TRUE,
          listing |-> [i \in 1..Len(courses) |->
                          [subject |-> GroupBySubject(courses)[i].VideoSubject,
                           title |-> GroupBySubject(courses)[i].VideoTitle,
                           author |-> GroupBySubject(courses)[i].VideoAuthorName,
                           language |-> GroupBySubject(courses)[i].VideoLanguage,
                           link |-> GroupBySubject(courses)[i].VideoLink]]]

----------------------------------------------------------------------------
(* The inputs the calls are made with.                                     *)

\* the times at which the calls are made, in ticks of half an hour
Times == {1, 2}
\* the zone of the process: UTC, Asia/Kolkata (+5:30), America/New_York (-5:00)
LocalZones == {0, ISTOffset, 0 - 10}
RollNos == {1, 2}
StaffIDs == {1, 2}
Thresholds == {40, DefaultThreshold}

\* two student profiles; the scores sit on both sides of every threshold
ProfileA == [Name |-> "Asha", Grade |-> 5, Language |-> "English",
             Language1 |-> 0, Language2 |-> 1, Language3 |-> 59,
             Maths |-> 40, Science |-> 60, Social |-> 100]
ProfileB == [Name |-> "Ravi", Grade |-> 6, Language |-> "Hindi",
             Language1 |-> 61, Language2 |-> 100, Language3 |-> 0,
             Maths |-> 60, Science |-> 39, Social |-> 59]
Profiles == {ProfileA, ProfileB}
\* the registrations made: a RollNo and the profile it is registered with
Registrations == {<<1, ProfileA>>, <<2, ProfileB>>}

AllKeys == {"RollNo", "Name", "Grade", "Language", "TimeStamp"} \cup Subjects

\* the key sets of the dicts passed to insert_student
InsertKeys ==
    {AllKeys,
     AllKeys \ {"TimeStamp"},
     {"RollNo", "Name", "Grade", "Language"},
     AllKeys \ {"TimeStamp", "RollNo"},
     AllKeys \ {"TimeStamp", "Name"},
     AllKeys \ {"TimeStamp", "Language"}}

\* the key sets of the dicts of two callers that update different scores
ScoreKeys == {{"RollNo", "Maths"}, {"RollNo", "Science"}}

\* the key sets of the dicts passed to update_student
UpdateKeys ==
    {{"RollNo", "Maths"},
     {"RollNo", "Maths", "TimeStamp"},
     {"Maths", "Science"}}

\* a dict with the given keys, its values taken from a profile and its
\* TimeStamp, when that is a key, the value timestamp: a string or None
DictOf(rollno, profile, keys, timestamp) ==
    Restrict([k \in AllKeys |->
                 IF k = "RollNo" THEN rollno
                 ELSE IF k = "TimeStamp" THEN timestamp
                 ELSE profile[k]], keys)

\* the arguments of save_student_data and of update_student_data
SaveArgs(rollno, p) ==
    [rollno |-> rollno, name |-> p.Name, grade |-> p.Grade, language |-> p.Language,
     language1 |-> p.Language1, language2 |-> p.Language2, language3 |-> p.Language3,
     maths |-> p.Maths, science |-> p.Science, social |-> p.Social]
UpdateArgs(rollno, p) ==
    [RollNo |-> rollno, Name |-> p.Name, Grade |-> p.Grade, Language |-> p.Language,
     Language1 |-> p.Language1, Language2 |-> p.Language2, Language3 |-> p.Language3,
     Maths |-> p.Maths, Science |-> p.Science, Social |-> p.Social]

\* the students of the classes: three of grade 5 with Maths scores, one of
\* grade 5 whose Maths score is null, one of grade 6
ClassStudent(rollno, name, grade, maths, science) ==
    [RollNo |-> rollno, Name |-> name, Grade |-> grade, Language |-> "English",
     Maths |-> maths, Science |-> science, TimeStamp |-> Str(1)]
ClassStudents ==
    {ClassStudent(1, "Asha", 5, 40, 60),
     ClassStudent(2, "Ravi", 5, 60, 0),
     ClassStudent(3, "Devi", 5, 80, 39),
     ClassStudent(4, "Manu", 5, None, 39),
     ClassStudent(5, "Gita", 6, 39, None)}
ClassGrades == {5, 6, 7, 8}

\* the sizes of the classes registered before
ClassSizes == {8, 40}
\* a class of grade 8 registered before: n students, of whom the first
\* `ones` have the Maths score 1 and the Science score 51 and the others the
\* scores 0 and 50
RegisteredClass(n, ones) ==
    SetToBag({InsertRow(ClassStudent(100 + i, "Student", 8,
                                     IF i <= ones THEN 1 ELSE 0,
                                     IF i <= ones THEN 51 ELSE 50), Str(1))
              : i \in 1..n})
\* classes whose means lie halfway between two hundredths: 1/8, 3/8, 5/8,
\* 1/40, 3/40, 5/40 and 50 more
RegisteredClasses ==
    {RegisteredClass(n, ones) : n \in ClassSizes, ones \in {1, 3, 5}}
\* students with a score of 0 and with a score that is not supplied
ZeroStudents ==
    {ClassStudent(1, "Asha", 5, 40, 60),
     ClassStudent(2, "Ravi", 5, 60, 0),
     [RollNo |-> 3, Name |-> "Hari", Grade |-> 5, Language |-> "English",
      Science |-> 70],
     ClassStudent(4, "Gita", 6, 0, 0)}
ZeroRollNos == {student["RollNo"] : student \in ZeroStudents}
ClassSubjects == {"Maths", "Science", "maths"}

\* the arguments of save_teacher_profile and of update_teacher_profile
NewTeachers ==
    {[staff_id |-> 1, name |-> "Meena", grades |-> <<5, 6>>, subject |-> "Maths"],
     [staff_id |-> 2, name |-> "Kiran", grades |-> <<7>>, subject |-> "Science"]}
TeacherUpdateArgs ==
    {[name |-> NoneName, grades |-> NoneList, subject |-> NoneName],
     [name |-> "", grades |-> <<>>, subject |-> ""],
     [name |-> "Latha", grades |-> NoneList, subject |-> NoneName],
     [name |-> NoneName, grades |-> <<8>>, subject |-> "Social"]}

----------------------------------------------------------------------------
(* store_results (evaluation_agent/agent.py) and StudentTestResultsDB.     *)

\* round(n / 2) rounding a half up
RoundHalf_halfUp(n) == (n + 1) \div 2

\* round(n / 2) of Python for an integer n >= 0: a half goes to the even
\* neighbour
RoundHalf(n) ==
    IF n % 2 = 0 THEN n \div 2
    ELSE IF ((n - 1) \div 2) % 2 = 0 THEN (n - 1) \div 2 ELSE (n + 1) \div 2

\* an insert that replaces the stored results of the RollNo in the subject
insert_result_upsert(tbl, rollno, subject, quiz_score, evaluated_score, total_score, timestamp) ==
    RowsBag(tbl, {row \in BagToSet(tbl) : row.RollNo # rollno \/ row.Subject # subject})
        (+) SetToBag({[RollNo |-> rollno, Subject |-> subject,
                       QuizScore |-> quiz_score, EvaluatedScore |-> evaluated_score,
                       TotalScore |-> total_score,
                       TestDate |-> ParseTimestamp(timestamp)]})

\* insert_result: INSERT of one row
insert_result(tbl, rollno, subject, quiz_score, evaluated_score, total_score, timestamp) ==
    tbl (+) SetToBag({[RollNo |-> rollno, Subject |-> subject,
                       QuizScore |-> quiz_score, EvaluatedScore |-> evaluated_score,
                       TotalScore |-> total_score,
                       TestDate |-> ParseTimestamp(timestamp)]})

\* store_results(rollno, subject, quiz_score, evaluated_score) at the time t:
\* the table it leaves; the function has no return statement
store_results(tbl, rollno, subject, quiz_score, evaluated_score, t) ==
    insert_result(tbl, rollno, subject, quiz_score, evaluated_score,
                  RoundHalf(quiz_score + evaluated_score), IstNowStr(t))

\* the dict get_student_results and get_subject_performance build from a row
ResultDict(row) ==
    [RollNo |-> row.RollNo, Subject |-> row.Subject,
     QuizScore |-> row.QuizScore, EvaluatedScore |-> row.EvaluatedScore,
     TotalScore |-> row.TotalScore, TestDate |-> Str(row.TestDate)]

\* the lists an ORDER BY TestDate DESC may return for the rows of the bag
RECURSIVE OrderByTestDateDesc(_)
OrderByTestDateDesc(b) ==
    IF BagToSet(b) = {} THEN {<<>>}
    ELSE UNION {{<<ResultDict(row)>> \o rest
                 : rest \in OrderByTestDateDesc(RemoveOne(b, row))}
                : row \in {r \in BagToSet(b) :
                              \A other \in BagToSet(b) : other.TestDate <= r.TestDate}}

\* get_student_results: SELECT * ... WHERE RollNo = @rollno ORDER BY TestDate DESC
get_student_results(tbl, rollno) ==
    OrderByTestDateDesc(RowsBag(tbl, WhereRollNo(tbl, rollno)))

\* get_subject_performance: ... WHERE RollNo = @rollno AND Subject = @subject
get_subject_performance(tbl, rollno, subject) ==
    OrderByTestDateDesc(RowsBag(tbl, {row \in WhereRollNo(tbl, rollno) :
                                        row.Subject = subject}))

\* the scores the evaluation agent is told to compute (0-100)
Scores == 0..MaxScore
\* pairs of a quiz score and an evaluated score
ScorePairs == {<<81, 60>>, <<0, 0>>, <<MaxScore, MaxScore>>}
\* the subjects of a test
TestSubjects == {"Maths", "Science"}

\* the links of the candidate videos
LongAbc == <<"https://", "www.", "youtube.com", "/", "watch", "?", "v=", "abc">>
ShortAbc == <<"https://", "youtu.be", "/", "abc", "?", "t=", "42">>
BareXyz == <<"www.", "youtube.com", "/", "watch", "?", "v=", "xyz">>
HttpXyz == <<"http://", "www.", "youtube.com", "/", "watch", "?", "v=", "xyz">>
OtherSite == <<"https://", "example.com", "/", "watch", "?", "v=", "abc">>
Misplaced == <<"https://", "example.com", "/", "?", "u=", "youtu.be", "/">>
HttpxAbc == <<"httpx.", "youtube.com", "/", "watch", "?", "v=", "abc">>

\* a candidate video as the search agent returns it
Video(title, link, subject) ==
    [author_name |-> "Channel", video_title |-> title, video_description |-> "about",
     video_link |-> link, video_language |-> "Hindi", video_subject |-> subject]

VLong == Video("Fractions", LongAbc, "Maths")
VShort == Video("Fractions, short link", ShortAbc, "Maths")
VBare == Video("Plants", BareXyz, "Science")
VHttp == Video("Plants, http", HttpXyz, "Science")
VOther == Video("Blog", OtherSite, "Maths")
VMisplaced == Video("Redirector", Misplaced, "Maths")
VEmpty == Video("Empty link", <<>>, "Science")
VNumber == Video("Number for a link", NumberLink, "Science")
VList == Video("List for a link", ListLink, "Science")
VHttpx == Video("Fractions, no scheme", HttpxAbc, "Maths")
VNoLink == [video_title |-> "No link"]
VLinkOnly == [video_link |-> LongAbc]

\* the candidates of the filter and the candidates of the whole pipeline
SampleVideos ==
    {VLong, VShort, VBare, VHttp, VOther, VMisplaced, VEmpty, VNumber, VList,
     VHttpx, VNoLink, VLinkOnly}
PipelineVideos == {VLong, VBare, VOther}

\* the lists of at most n elements of S
Lists(S, n) == UNION {[1..m -> S] : m \in 0..n}

\* the URLs requests.head is called with, and its outcomes
HeadURLs ==
    {u \in {NormalizeLink(Get(v, "video_link", <<>>)) : v \in SampleVideos} :
        /\ HasScheme(u)
        /\ ContainsSeq(u, <<"youtube.com">>) \/ ContainsSeq(u, <<"youtu.be">>)}
HeadOutcomes == {StatusOK, 404, RequestException}
AllReachable == [u \in HeadURLs |-> StatusOK]

\* the StudentName passed for each RollNo
StudentNameOf(rollno) == IF rollno = 1 THEN "Asha" ELSE "Ravi"

\* the callers of save_validated_videos
CallIds == {1, 2}
Idle == [pc |-> "idle"]

NoCall == [op |-> "none", raised |-> ""]

\* the last call that has returned or raised, or the last request served of
\* a call in flight: what `last` held before the constructors that followed
LastCall == IF last.op = "construct" THEN last.before ELSE last

\* what is kept of the last call over the constructors that follow it: the
\* calls that the calls after them are compared with
Remembered(call) ==
    IF call.op \in {"insert_student", "save_student_data",
                    "delete_student_courses", "evaluation"}
    THEN call ELSE NoCall

\* the call of the caller c returns or raises
Returns(c) == calls' = [calls EXCEPT ![c] = Idle]

\* the first request of a call on the store of the table `name`, by a caller
\* whose constructor has been served. On a table that does not exist the
\* request raises NotFound, which nothing in the stores of the students, the
\* recommendations and the test results catches, unless the call has raised
\* `early`, before its first request
OnStore(c, name, op, early, Requests) ==
    /\ calls[c].pc = "constructed"
    /\ calls[c].store = name
    /\ tables' = tables
    /\ IF name \in tables
       THEN Requests
       ELSE /\ last' = [op |-> op,
                        raised |-> IF early = "" THEN "NotFound" ELSE early]
            /\ Returns(c)
            /\ UNCHANGED <<students, teachers, recs, reach, results>>

----------------------------------------------------------------------------
(* The calls on the students table.                                        *)

\* whether the last call was an insert of this RollNo into a table that held
\* no row for it: the dict inserted, or the empty dict
JustInserted(rollno) ==
    IF /\ LastCall.op \in {"insert_student", "save_student_data"}
       /\ LastCall.raised = ""
       /\ LastCall.fresh
       /\ LastCall.student["RollNo"] = rollno
    THEN LastCall.student ELSE EmptyDict

CheckStudent(c, rollno) ==
    OnStore(c, "students", "check_student", "",
        /\ last' = [op |-> "check_student", rollno |-> rollno, raised |-> "",
                    ret |-> [exists |-> student_exists(students, rollno)]]
        /\ Returns(c)
        /\ UNCHANGED <<students, teachers, recs, reach, results>>)

GetStudent(c, rollno) ==
    OnStore(c, "students", "get_student", "",
        /\ \E d \in get_student(students, rollno) :
              last' = [op |-> "get_student", rollno |-> rollno, raised |-> "",
                       ret |-> d, inserted |-> JustInserted(rollno)]
        /\ Returns(c)
        /\ UNCHANGED <<students, teachers, recs, reach, results>>)

GetWeakSubjects(c, rollno, threshold) ==
    OnStore(c, "students", "get_weak_subjects", "",
        /\ \E d \in get_student(students, rollno) :
              LET r == get_weak_subjects(d, threshold)
              IN  last' = [op |-> "get_weak_subjects", rollno |-> rollno,
                           threshold |-> threshold, raised |-> r.raised,
                           student |-> d, ret |-> r.ret]
        /\ Returns(c)
        /\ UNCHANGED <<students, teachers, recs, reach, results>>)

\* StudentDatabase().insert_student(student) at the time t, on a table that
\* is to hold at most `bound` rows
InsertWithin(c, student, t, bound) ==
    OnStore(c, "students", "insert_student",
            insert_student(students, student, UtcNowIso(t)).raised,
        LET r == insert_student(students, student, UtcNowIso(t))
        IN  /\ BagCardinality(r.tbl) <= bound
            /\ students' = r.tbl
            /\ last' = [op |-> "insert_student", student |-> student,
                        raised |-> r.raised,
                        fresh |-> /\ "RollNo" \in DOMAIN student
                                  /\ ~student_exists(students, student["RollNo"])]
            /\ Returns(c)
            /\ UNCHANGED <<teachers, recs, reach, results>>)

InsertStudent(c, student, t) == InsertWithin(c, student, t, MaxStudents)

\* the insert of a student of the classes
InsertClassStudent(c, student, t) == InsertWithin(c, student, t, MaxClass)

SaveStudentData(c, a, t) ==
    OnStore(c, "students", "save_student_data", "",
        LET r == save_student_data(students, a, IstNowStr(t), UtcNowIso(t))
        IN  /\ BagCardinality(r.tbl) <= MaxStudents
            /\ students' = r.tbl
            /\ last' = [op |-> "save_student_data", student |-> SaveDict(a, IstNowStr(t)),
                        raised |-> r.raised, ret |-> r.ret,
                        fresh |-> ~student_exists(students, a.rollno)]
            /\ Returns(c)
            /\ UNCHANGED <<teachers, recs, reach, results>>)

\* the record of a call of update_student or update_student_data that has
\* ended: what the caller gets, what the call read and wrote, and whether
\* the row it read was no longer stored when it ended
UpdateEnded(call, raised) ==
    IF call.op = "update_student"
    THEN [op |-> "update_student", student |-> call.student,
          existing |-> call.existing, now |-> call.now, raised |-> raised,
          stale |-> /\ call.existing # EmptyDict
                    /\ call.existing \notin get_student(students, call.student["RollNo"])]
    ELSE [op |-> "update_student_data", rollno |-> call.args.RollNo,
          args |-> call.args, student |-> call.student,
          existing |-> call.existing, now |-> call.now, raised |-> raised,
          stale |-> /\ call.existing # EmptyDict
                    /\ call.existing \notin get_student(students, call.args.RollNo),
          ret |-> IF raised = "" THEN [status |-> "success"] ELSE <<>>]

\* update_student(student) is three requests to the store, each awaited:
\* SELECT 1 (student_exists), SELECT * (get_student) and the UPDATE of every
\* column; other callers' requests may be served between them.
\* First step of a direct call, after StudentDatabase(): the RollNo check
\* and student_exists.
UpdateStudent(c, student) ==
    /\ OnStore(c, "students", "update_student",
            IF "RollNo" \notin DOMAIN student THEN "ValueError" ELSE "",
        LET raised == update_student_check(students, student)
            call == [pc |-> "get_student", op |-> "update_student", student |-> student,
                     existing |-> EmptyDict, now |-> 0]
        IN  /\ calls' = [calls EXCEPT ![c] = IF raised = "" THEN call ELSE Idle]
            /\ last' = IF raised = ""
                        THEN [op |-> "update_student.student_exists", caller |-> c,
                              raised |-> ""]
                        ELSE UpdateEnded(call, raised)
            /\ UNCHANGED <<students, teachers, recs, reach, results>>)

\* update_student_data, after StudentDatabase(): its own get_student; the
\* error result for an empty dict, otherwise the call of update_student is
\* next
UpdateStudentData(c, a) ==
    /\ OnStore(c, "students", "update_student_data", "",
        /\ \E current_data \in get_student(students, a.RollNo) :
              LET r == update_student_data(a, current_data)
              IN  IF r.updated_student = EmptyDict
                  THEN /\ Returns(c)
                       /\ last' = [op |-> "update_student_data", rollno |-> a.RollNo,
                                   args |-> a, raised |-> "", ret |-> r.ret]
                  ELSE /\ calls' = [calls EXCEPT ![c] =
                                       [pc |-> "student_exists",
                                        op |-> "update_student_data", args |-> a,
                                        student |-> r.updated_student,
                                        existing |-> EmptyDict, now |-> 0]]
                       /\ last' = [op |-> "update_student_data.get_student",
                                   caller |-> c, raised |-> ""]
        /\ UNCHANGED <<students, teachers, recs, reach, results>>)

\* the RollNo check and student_exists of the update_student that
\* update_student_data calls
UpdateStudentExists(c) ==
    LET call == calls[c]
        raised == update_student_check(students, call.student)
    IN  /\ call.pc = "student_exists"
        /\ calls' = [calls EXCEPT ![c] =
                        IF raised = "" THEN [call EXCEPT !.pc = "get_student"]
                        ELSE Idle]
        /\ last' = IF raised = ""
                    THEN [op |-> "update_student.student_exists", caller |-> c,
                          raised |-> ""]
                    ELSE UpdateEnded(call, raised)
        /\ UNCHANGED <<students, teachers, recs, reach, results, tables>>

\* get_student inside update_student, then the merge into `updated` with
\* the time of the merge, datetime.utcnow()
UpdateStudentGet(c, t) ==
    LET call == calls[c]
    IN  /\ call.pc = "get_student"
        /\ \E existing \in get_student(students, call.student["RollNo"]) :
              LET r == update_student_merge(call.student, existing, UtcNowIso(t))
                  read == [call EXCEPT !.existing = existing, !.now = t]
              IN  /\ calls' = [calls EXCEPT ![c] =
                                  IF r.raised = "" THEN [read EXCEPT !.pc = "update"]
                                  ELSE Idle]
                  /\ last' = IF r.raised = ""
                              THEN [op |-> "update_student.get_student",
                                    caller |-> c, raised |-> ""]
                              ELSE UpdateEnded(read, r.raised)
        /\ UNCHANGED <<students, teachers, recs, reach, results, tables>>

\* the UPDATE of update_student, of the row merged from what get_student
\* returned, and the return to the caller
UpdateStudentUpdate(c) ==
    LET call == calls[c]
        r == update_student_merge(call.student, call.existing, UtcNowIso(call.now))
    IN  /\ call.pc = "update"
        /\ students' = UpdateWhereRollNo(students, r.updated)
        /\ calls' = [calls EXCEPT ![c] = Idle]
        /\ last' = UpdateEnded(call, "")
        /\ UNCHANGED <<teachers, recs, reach, results, tables>>

----------------------------------------------------------------------------
(* The tools of the teacher agent (subagents/teacher_agent/agent.py).      *)

\* Each tool of the teacher agent is TeacherDatabase(), whose create_table
\* is served first, and one request on the teachers table, which raises
\* when the table does not exist; every method catches what its request
\* raises.
CheckTeacher(c, staff_id, query) ==
    LET met == RequestOn(tables, "teachers", query)
    IN  /\ calls[c].pc = "constructed"
        /\ calls[c].store = "teachers"
        /\ last' = [op |-> "check_teacher", staff_id |-> staff_id, raised |-> "",
                    query |-> met,
                    ret |-> [exists |-> teacher_exists(teachers, staff_id, met)]]
        /\ Returns(c)
        /\ UNCHANGED <<students, teachers, recs, reach, results, tables>>

SaveTeacherProfile(c, staff_id, a, t, tz, insert) ==
    LET met == RequestOn(tables, "teachers", insert)
        r == save_teacher(teachers, staff_id, a.name, a.grades, a.subject,
                          LocalNowIso(t, tz), met)
    IN  /\ calls[c].pc = "constructed"
        /\ calls[c].store = "teachers"
        /\ BagCardinality(r.tbl) <= MaxTeachers
        /\ teachers' = r.tbl
        /\ last' = [op |-> "save_teacher_profile", staff_id |-> staff_id,
                    args |-> a, now |-> t, tz |-> tz, insert |-> met,
                    raised |-> "", ret |-> r.ret]
        /\ Returns(c)
        /\ UNCHANGED <<students, recs, reach, results, tables>>

ViewTeacherProfile(c, staff_id, query) ==
    LET met == RequestOn(tables, "teachers", query)
    IN  /\ calls[c].pc = "constructed"
        /\ calls[c].store = "teachers"
        /\ \E teacher \in get_teacher(teachers, staff_id, met) :
              last' = [op |-> "view_teacher_profile", staff_id |-> staff_id,
                       raised |-> "", query |-> met,
                       ret |-> IF teacher = EmptyDict
                               THEN [status |-> "error"]
                               ELSE [status |-> "success", message |-> teacher]]
        /\ Returns(c)
        /\ UNCHANGED <<students, teachers, recs, reach, results, tables>>

UpdateTeacherProfile(c, staff_id, name, grades, subject, t, query) ==
    LET met == RequestOn(tables, "teachers", query)
        r == update_teacher(teachers, staff_id, name, grades, subject,
                            UtcNowIso(t), met)
    IN  /\ calls[c].pc = "constructed"
        /\ calls[c].store = "teachers"
        /\ teachers' = r.tbl
        /\ last' = [op |-> "update_teacher_profile", staff_id |-> staff_id,
                    args |-> [name |-> name, grades |-> grades, subject |-> subject],
                    existed |-> WhereStaffID(teachers, staff_id) # {}, now |-> t,
                    query |-> met, raised |-> "", ret |-> r.ret]
        /\ Returns(c)
        /\ UNCHANGED <<students, recs, reach, results, tables>>

----------------------------------------------------------------------------
(* The tools of the course validation and skill testing agents.            *)

FilterVideos(videos) ==
    LET r == filter_videos_with_valid_links(videos, reach)
    IN  /\ last' = [op |-> "filter_videos_with_valid_links", videos |-> videos,
                    raised |-> r.raised, ret |-> r.ret, after |-> r.videos,
                    searched |-> IF last.op = "search" THEN videos ELSE last.searched,
                    again |-> last.op # "search"]
        /\ UNCHANGED <<students, teachers, recs, calls, reach, results, tables>>

\* the filter run on the list the search agent has returned
FilterSearchResults ==
    /\ last.op = "search"
    /\ FilterVideos(last.ret)

\* the second run of the filter, on the list it has returned
FilterAgain ==
    /\ last.op = "filter_videos_with_valid_links"
    /\ last.raised = ""
    /\ FilterVideos(last.ret)

\* the lists the filter hands to save_validated_videos
ValidatedLists ==
    {filter_videos_with_valid_links(videos, AllReachable).ret :
        videos \in Lists(PipelineVideos, MaxVideos)}

\* save_validated_videos(rollno, student_name, validated_videos), after
\* StudentCourseRecommendationDatabase(): the call up to the end of
\* delete_student_courses
SaveValidatedVideos(c, rollno, validated_videos) ==
    /\ OnStore(c, "student_course_recommendations", "save_validated_videos", "",
        /\ recs' = delete_student_courses(recs, rollno)
        /\ calls' = [calls EXCEPT ![c] =
                        [pc |-> IF validated_videos = <<>> THEN "done" ELSE "insert",
                         rollno |-> rollno, student_name |-> StudentNameOf(rollno),
                         validated_videos |-> validated_videos, k |-> 1,
                         old |-> RowsBag(recs, WhereRollNo(recs, rollno))]]
        /\ last' = IF validated_videos = <<>>
                   THEN [op |-> "save_validated_videos", rollno |-> rollno,
                         raised |-> "", ret |-> 0]
                   ELSE [op |-> "delete_student_courses", rollno |-> rollno,
                         raised |-> ""]
        /\ UNCHANGED <<students, teachers, reach, results>>)

\* one turn of the loop of save_validated_videos: insert_recommendation of
\* the k-th video with the TimeStamp t, the datetime.utcnow() it has read
\* before the request is sent (the clock of another caller, or a clock that
\* was set back, may have stamped a stored row with a later time); after the
\* last one the call returns the number of videos in its message
SaveInsert(c, t) ==
    /\ calls[c].pc = "insert"
    /\ LET call == calls[c]
           video == call.validated_videos[call.k]
       IN  /\ recs' = insert_recommendation(
                        recs, CourseDict(call.rollno, call.student_name, video), t)
           /\ calls' = [calls EXCEPT ![c] =
                          [call EXCEPT !.k = call.k + 1,
                                       !.pc = IF call.k = Len(call.validated_videos)
                                              THEN "done" ELSE "insert"]]
           /\ last' = IF call.k = Len(call.validated_videos)
                      THEN [op |-> "save_validated_videos", rollno |-> call.rollno,
                            raised |-> "", ret |-> Len(call.validated_videos)]
                      ELSE [op |-> "insert_recommendation", rollno |-> call.rollno,
                            raised |-> ""]
    /\ UNCHANGED <<students, teachers, reach, results, tables>>

\* a failed insert that puts the rows the call has deleted back
SaveInsertRaises_rollback(c) ==
    /\ calls[c].pc = "insert"
    /\ recs' = delete_student_courses(recs, calls[c].rollno) (+) calls[c].old
    /\ calls' = [calls EXCEPT ![c].pc = "raised"]
    /\ last' = [op |-> "save_validated_videos", rollno |-> calls[c].rollno,
                raised |-> "Exception", k |-> calls[c].k]
    /\ UNCHANGED <<students, teachers, reach, results, tables>>

\* one turn of the loop of save_validated_videos in which the query of
\* insert_recommendation raises: nothing is inserted, and the exception
\* leaves the loop and the function, which has no try block
SaveInsertRaises(c) ==
    /\ calls[c].pc = "insert"
    /\ recs' = recs
    /\ calls' = [calls EXCEPT ![c].pc = "raised"]
    /\ last' = [op |-> "save_validated_videos", rollno |-> calls[c].rollno,
                raised |-> "Exception", k |-> calls[c].k]
    /\ UNCHANGED <<students, teachers, reach, results, tables>>

\* StudentCourseRecommendationDatabase().delete_student_courses(rollno)
\* called on its own
DeleteStudentCourses(c, rollno) ==
    OnStore(c, "student_course_recommendations", "delete_student_courses", "",
        /\ recs' = delete_student_courses(recs, rollno)
        /\ last' = [op |-> "delete_student_courses", rollno |-> rollno, raised |-> "",
                    removed |-> CountRollNo(recs, rollno),
                    repeated |-> /\ LastCall.op = "delete_student_courses"
                                 /\ LastCall.rollno = rollno]
        /\ Returns(c)
        /\ UNCHANGED <<students, teachers, reach, results>>)

DisplayStudentTutorials(c, rollno) ==
    OnStore(c, "student_course_recommendations", "display_student_tutorials", "",
        /\ \E courses \in get_courses_for_student(recs, rollno) :
              last' = [op |-> "display_student_tutorials", rollno |-> rollno,
                       raised |-> "", courses |-> courses,
                       ret |-> display_student_tutorials(courses)]
        /\ Returns(c)
        /\ UNCHANGED <<students, teachers, recs, reach, results>>)

\* the tool get_class_average, after TeacherDatabase(): its
\* get_class_average, whose SELECT on the students table raises when that
\* table does not exist; `created` tells whether the constructor of the
\* call has created the teachers table
GetClassAverage(c, grade, subject, query) ==
    LET met == RequestOn(tables, "students", query)
        r == get_class_average(students, grade, subject, met)
    IN  /\ calls[c].pc = "constructed"
        /\ calls[c].store = "teachers"
        /\ last' = [op |-> "get_class_average", grade |-> grade, subject |-> subject,
                    raised |-> "", ret |-> r.ret, query |-> met,
                    created |-> calls[c].created,
                    requests |-> <<"create_table teachers">> \o r.queries]
        /\ Returns(c)
        /\ UNCHANGED <<students, teachers, recs, reach, results, tables>>

\* the scores the evaluation agent has computed for a test
Evaluation(quiz_score, evaluated_score) ==
    [op |-> "evaluation", raised |-> "",
     quiz_score |-> quiz_score, evaluated_score |-> evaluated_score]

\* store_results called with the scores of the evaluation
StoreResults(c, rollno, subject, t) ==
    /\ LastCall.op = "evaluation"
    /\ OnStore(c, "student_test_results", "store_results", "",
        /\ results' = store_results(results, rollno, subject,
                                    LastCall.quiz_score, LastCall.evaluated_score, t)
        /\ last' = [op |-> "store_results", rollno |-> rollno, subject |-> subject,
                    quiz_score |-> LastCall.quiz_score,
                    evaluated_score |-> LastCall.evaluated_score,
                    raised |-> "", ret |-> NoneStr, now |-> t]
        /\ Returns(c)
        /\ UNCHANGED <<students, teachers, recs, reach>>)

\* store_results(rollno, subject, quiz_score, evaluated_score) at the time t
StoreTestResults(c, rollno, subject, quiz_score, evaluated_score, t) ==
    /\ BagCardinality(results) < MaxResults
    /\ OnStore(c, "student_test_results", "store_results", "",
        /\ results' = store_results(results, rollno, subject, quiz_score, evaluated_score, t)
        /\ last' = [op |-> "store_results", rollno |-> rollno, subject |-> subject,
                    quiz_score |-> quiz_score, evaluated_score |-> evaluated_score,
                    raised |-> "", ret |-> NoneStr, now |-> t]
        /\ Returns(c)
        /\ UNCHANGED <<students, teachers, recs, reach>>)

\* StudentTestResultsDB().get_student_results(rollno)
GetStudentResults(c, rollno) ==
    OnStore(c, "student_test_results", "get_student_results", "",
        /\ \E test_results \in get_student_results(results, rollno) :
              last' = [op |-> "get_student_results", rollno |-> rollno,
                       raised |-> "", ret |-> test_results]
        /\ Returns(c)
        /\ UNCHANGED <<students, teachers, recs, reach, results>>)

\* StudentTestResultsDB().get_subject_performance(rollno, subject)
GetSubjectPerformance(c, rollno, subject) ==
    OnStore(c, "student_test_results", "get_subject_performance", "",
        /\ \E test_results \in get_subject_performance(results, rollno, subject) :
              last' = [op |-> "get_subject_performance", rollno |-> rollno,
                       subject |-> subject, raised |-> "", ret |-> test_results]
        /\ Returns(c)
        /\ UNCHANGED <<students, teachers, recs, reach, results>>)

\* the names of the tables of the four stores
TableNames == {"students", "teachers", "student_course_recommendations",
               "student_test_results"}

\* the dataset: the tables that exist, each with its rows
Dataset ==
    [name \in tables |->
        CASE name = "students" -> students
          [] name = "teachers" -> teachers
          [] name = "student_course_recommendations" -> recs
          [] OTHER -> results]

\* the rows of the table in the dataset, none when it does not exist
RowsIn(dataset, name) == Get(dataset, name, EmptyBag)

\* StudentDatabase(), TeacherDatabase(), StudentCourseRecommendationDatabase()
\* or StudentTestResultsDB(): the constructor of the store of the table,
\* with which every tool and every call on a store begins. Its create_table
\* is a request of its own: the requests of other callers may be served
\* before the first request of the call that follows it
ConstructStore(c, name, outcome) ==
    LET r == create_table_if_not_exists(Dataset, name, outcome)
    IN  /\ calls[c].pc \in {"idle", "done", "raised"}
        /\ calls' = [calls EXCEPT ![c] =
                        [pc |-> "constructed", store |-> name,
                         created |-> name \notin tables /\ name \in DOMAIN r.dataset]]
        /\ tables' = DOMAIN r.dataset
        /\ students' = RowsIn(r.dataset, "students")
        /\ teachers' = RowsIn(r.dataset, "teachers")
        /\ recs' = RowsIn(r.dataset, "student_course_recommendations")
        /\ results' = RowsIn(r.dataset, "student_test_results")
        /\ last' = [op |-> "construct", table |-> name, outcome |-> outcome,
                    existed |-> name \in tables,
                    raised |-> r.raised, caught |-> r.caught,
                    before |-> Remembered(LastCall)]
        /\ UNCHANGED reach

\* the candidate list the search agent has returned
SearchResult(videos) == [op |-> "search", raised |-> "", ret |-> videos]

Init ==
    /\ students = EmptyBag
    /\ teachers = EmptyBag
    /\ recs = EmptyBag
    /\ calls = [c \in CallIds |-> Idle]
    /\ reach = AllReachable
    /\ results = EmptyBag
    /\ tables = {}
    /\ last = NoCall

\* the tools and store calls of the students table on a store that answers
\* the create_table of the constructors: registrations at time 1, the one
\* of RollNo 1 also with the TimeStamp None, and one update call at a time,
\* read at time 2, by the caller 1; the other calls are made by the caller 2
\* and served at any moment between the requests of the update (two update
\* calls in flight together and a create_table that fails are the subject of
\* SpecUpdaters)
Next ==
    \/ \E c \in CallIds : ConstructStore(c, "students", "answered")
    \/ \E rollno \in RollNos : CheckStudent(2, rollno)
    \/ \E rollno \in RollNos : GetStudent(2, rollno)
    \/ \E x \in Registrations, keys \in InsertKeys :
          /\ "TimeStamp" \in keys => x[1] = 1
          /\ InsertStudent(2, DictOf(x[1], x[2], keys, NoneStr), 1)
    \/ \E x \in Registrations : SaveStudentData(2, SaveArgs(x[1], x[2]), 1)
    \/ \E rollno \in RollNos, p \in Profiles, keys \in UpdateKeys :
          UpdateStudent(1, DictOf(rollno, p, keys, Str(0)))
    \/ \E rollno \in RollNos, p \in Profiles :
          UpdateStudentData(1, UpdateArgs(rollno, p))
    \/ UpdateStudentExists(1)
    \/ UpdateStudentGet(1, 2)
    \/ UpdateStudentUpdate(1)

Spec == Init /\ [][Next]_vars

\* the tools of the teacher agent under every outcome of the create_table of
\* the constructor: the caller 1 makes the calls whose request is answered
\* at every time and in every zone, and at time 1 in UTC the calls under
\* every outcome of the request; the caller 2 calls check_teacher, and its
\* requests are served at any moment between those of the caller 1
NextTeacher ==
    \/ \E c \in CallIds, outcome \in CreateOutcomes :
          ConstructStore(c, "teachers", outcome)
    \/ \E c \in CallIds, staff_id \in StaffIDs, query \in QueryOutcomes :
          CheckTeacher(c, staff_id, query)
    \/ \E a \in NewTeachers, t \in Times, tz \in LocalZones :
          SaveTeacherProfile(1, a.staff_id, a, t, tz, "inserted")
    \/ \E a \in NewTeachers, insert \in InsertOutcomes :
          SaveTeacherProfile(1, a.staff_id, a, 1, 0, insert)
    \/ \E staff_id \in StaffIDs, query \in QueryOutcomes :
          ViewTeacherProfile(1, staff_id, query)
    \/ \E staff_id \in StaffIDs, a \in TeacherUpdateArgs, t \in Times :
          UpdateTeacherProfile(1, staff_id, a.name, a.grades, a.subject, t, "answered")
    \/ \E staff_id \in StaffIDs, a \in TeacherUpdateArgs :
          UpdateTeacherProfile(1, staff_id, a.name, a.grades, a.subject, 1, "raised")

SpecTeacher == Init /\ [][NextTeacher]_vars

\* the operations that write the students table and the teachers table,
\* with every request answered (a request that fails writes nothing);
\* registrations at time 1 by a process in Asia/Kolkata, updates at time 2
NextRecords ==
    \/ \E name \in {"students", "teachers"} : ConstructStore(1, name, "answered")
    \/ \E x \in Registrations : SaveStudentData(1, SaveArgs(x[1], x[2]), 1)
    \/ \E rollno \in RollNos : UpdateStudentData(1, UpdateArgs(rollno, ProfileB))
    \/ UpdateStudentExists(1)
    \/ UpdateStudentGet(1, 2)
    \/ UpdateStudentUpdate(1)
    \/ \E a \in NewTeachers :
          SaveTeacherProfile(1, a.staff_id, a, 1, ISTOffset, "inserted")
    \/ \E staff_id \in StaffIDs, a \in TeacherUpdateArgs :
          UpdateTeacherProfile(1, staff_id, a.name, a.grades, a.subject, 2, "answered")

SpecRecords == Init /\ [][NextRecords]_vars

\* two callers that check, read, register and update the student with
\* RollNo 1 at the same time, each request of a call, the create_table of its
\* constructor included, served at any moment between the requests of the
\* other, under every outcome of the create_table of the constructors
NextUpdaters ==
    \/ \E c \in CallIds, outcome \in CreateOutcomes :
          ConstructStore(c, "students", outcome)
    \/ \E c \in CallIds : CheckStudent(c, 1)
    \/ \E c \in CallIds : GetStudent(c, 1)
    \/ \E c \in CallIds : SaveStudentData(c, SaveArgs(1, ProfileA), 1)
    \/ \E c \in CallIds, keys \in ScoreKeys :
          UpdateStudent(c, DictOf(1, ProfileB, keys, Str(0)))
    \/ \E c \in CallIds : UpdateStudentData(c, UpdateArgs(1, ProfileB))
    \/ \E c \in CallIds : UpdateStudentExists(c)
    \/ \E c \in CallIds, t \in Times : UpdateStudentGet(c, t)
    \/ \E c \in CallIds : UpdateStudentUpdate(c)

SpecUpdaters == Init /\ [][NextUpdaters]_vars

\* the recommendation pipeline with one caller of save_validated_videos, the
\* caller 1, and a reader, the caller 2, at any moment of the call; the
\* second student is given lists of at most one video
NextRecs ==
    \/ \E c \in CallIds :
          ConstructStore(c, "student_course_recommendations", "answered")
    \/ \E validated_videos \in ValidatedLists :
          SaveValidatedVideos(1, 1, validated_videos)
    \/ \E validated_videos \in {v \in ValidatedLists : Len(v) <= 1} :
          SaveValidatedVideos(1, 2, validated_videos)
    \/ \E t \in Times : SaveInsert(1, t)
    \/ \E rollno \in RollNos : DisplayStudentTutorials(2, rollno)

SpecRecs == Init /\ [][NextRecs]_vars

\* two callers of save_validated_videos, one call each for the RollNo 1,
\* their steps interleaved
NextWriters ==
    \/ \E c \in CallIds :
          /\ calls[c].pc = "idle"
          /\ ConstructStore(c, "student_course_recommendations", "answered")
    \/ \E c \in CallIds, validated_videos \in ValidatedLists :
          SaveValidatedVideos(c, 1, validated_videos)
    \/ \E c \in CallIds, t \in Times : SaveInsert(c, t)

SpecWriters == Init /\ [][NextWriters]_vars

\* saves of recommendations and deletes called on their own; the second
\* student is given lists of at most one video
NextDelete ==
    \/ ConstructStore(1, "student_course_recommendations", "answered")
    \/ \E validated_videos \in ValidatedLists :
          SaveValidatedVideos(1, 1, validated_videos)
    \/ \E validated_videos \in {v \in ValidatedLists : Len(v) <= 1} :
          SaveValidatedVideos(1, 2, validated_videos)
    \/ \E t \in Times : SaveInsert(1, t)
    \/ \E rollno \in RollNos : DeleteStudentCourses(1, rollno)

SpecDelete == Init /\ [][NextDelete]_vars

\* saves of recommendations in which an insert may raise
NextSaveFails ==
    \/ ConstructStore(1, "student_course_recommendations", "answered")
    \/ \E rollno \in RollNos, validated_videos \in ValidatedLists :
          SaveValidatedVideos(1, rollno, validated_videos)
    \/ \E t \in Times : SaveInsert(1, t)
    \/ SaveInsertRaises(1)

SpecSaveFails == Init /\ [][NextSaveFails]_vars

\* the filter alone, under every answer of requests.head
InitFilter ==
    /\ students = EmptyBag
    /\ teachers = EmptyBag
    /\ recs = EmptyBag
    /\ calls = [c \in CallIds |-> Idle]
    /\ reach \in [HeadURLs -> HeadOutcomes]
    /\ results = EmptyBag
    /\ tables = {}
    /\ \E videos \in Lists(SampleVideos, MaxVideos) : last = SearchResult(videos)

NextFilter ==
    \/ FilterSearchResults
    \/ FilterAgain

SpecFilter == InitFilter /\ [][NextFilter]_vars

\* the classes: a dataset with no table, or one whose students table holds
\* a class that was registered before
InitClass ==
    /\ students \in {EmptyBag} \cup RegisteredClasses
    /\ teachers = EmptyBag
    /\ recs = EmptyBag
    /\ calls = [c \in CallIds |-> Idle]
    /\ reach = AllReachable
    /\ results = EmptyBag
    /\ tables = IF students = EmptyBag THEN {} ELSE {"students"}
    /\ last = NoCall

\* the students of the classes, registered by the caller 1, and the class
\* averages, asked by the caller 2, their requests served in any order,
\* under every outcome of the create_table of the constructors and of the
\* SELECT
NextClass ==
    \/ \E outcome \in CreateOutcomes : ConstructStore(1, "students", outcome)
    \/ \E outcome \in CreateOutcomes : ConstructStore(2, "teachers", outcome)
    \/ \E student \in ClassStudents, t \in Times : InsertClassStudent(1, student, t)
    \/ \E grade \in ClassGrades, subject \in ClassSubjects, query \in QueryOutcomes :
          GetClassAverage(2, grade, subject, query)

SpecClass == InitClass /\ [][NextClass]_vars

\* the class average and the weak subjects of students with a score of 0
NextZero ==
    \/ \E outcome \in CreateOutcomes : ConstructStore(1, "students", outcome)
    \/ \E outcome \in CreateOutcomes : ConstructStore(2, "teachers", outcome)
    \/ \E student \in ZeroStudents, t \in Times : InsertClassStudent(1, student, t)
    \/ \E grade \in {5, 6}, subject \in {"Maths", "Science"}, query \in QueryOutcomes :
          GetClassAverage(2, grade, subject, query)
    \/ \E rollno \in ZeroRollNos, threshold \in Thresholds :
          GetWeakSubjects(1, rollno, threshold)

SpecZero == Init /\ [][NextZero]_vars

\* the weak subjects of the students of the classes, two of whom have a
\* score that is null: the students are registered by the caller 1 and the
\* weak subjects asked by the caller 2, their requests served in any order,
\* under every outcome of the create_table of the constructors
NextWeak ==
    \/ \E c \in CallIds, outcome \in CreateOutcomes :
          ConstructStore(c, "students", outcome)
    \/ \E student \in ClassStudents, t \in Times : InsertClassStudent(1, student, t)
    \/ \E student \in ClassStudents, threshold \in Thresholds :
          GetWeakSubjects(2, student["RollNo"], threshold)

SpecWeak == Init /\ [][NextWeak]_vars

\* store_results alone, for every pair of scores
InitScores ==
    /\ students = EmptyBag
    /\ teachers = EmptyBag
    /\ recs = EmptyBag
    /\ calls = [c \in CallIds |-> Idle]
    /\ reach = AllReachable
    /\ results = EmptyBag
    /\ tables = {}
    /\ \E quiz_score \in Scores, evaluated_score \in Scores :
          last = Evaluation(quiz_score, evaluated_score)

NextScores ==
    \/ ConstructStore(1, "student_test_results", "answered")
    \/ \E rollno \in RollNos, t \in Times : StoreResults(1, rollno, "Maths", t)

SpecScores == InitScores /\ [][NextScores]_vars

\* the operations of StudentTestResultsDB
NextResults ==
    \/ ConstructStore(1, "student_test_results", "answered")
    \/ \E rollno \in RollNos, subject \in TestSubjects, x \in ScorePairs, t \in Times :
          StoreTestResults(1, rollno, subject, x[1], x[2], t)
    \/ \E rollno \in RollNos : GetStudentResults(1, rollno)
    \/ \E rollno \in RollNos, subject \in TestSubjects :
          GetSubjectPerformance(1, rollno, subject)

SpecResults == Init /\ [][NextResults]_vars

\* constructions of the four stores by the caller 1, among the calls that
\* follow them, writes that fill the tables and a read, and constructions of
\* the store of the recommendations by the caller 2, served at any moment
\* between the requests of the caller 1
NextTables ==
    \/ \E name \in TableNames, outcome \in CreateOutcomes :
          ConstructStore(1, name, outcome)
    \/ \E outcome \in CreateOutcomes :
          ConstructStore(2, "student_course_recommendations", outcome)
    \/ \E x \in Registrations : SaveStudentData(1, SaveArgs(x[1], x[2]), 1)
    \/ \E a \in NewTeachers : SaveTeacherProfile(1, a.staff_id, a, 1, 0, "inserted")
    \/ \E x \in ScorePairs : StoreTestResults(1, 1, "Maths", x[1], x[2], 1)
    \/ \E c \in CallIds : DisplayStudentTutorials(c, 1)

SpecTables == Init /\ [][NextTables]_vars

----------------------------------------------------------------------------
(* Properties of the students table (specification Spec).                  *)

\* whether the list holds the element
Contains(list, x) == \E i \in 1..Len(list) : list[i] = x

\* C1: for every stored student and every threshold t, get_weak_subjects
\* returns a list, and a subject is in the list if and only if its stored
\* score s satisfies 0 < s < t; a score of 0 and a score s >= t are never
\* reported.
C1_WeakIffStrictlyBetween ==
    (last.op = "get_weak_subjects" /\ student_exists(students, last.rollno)) =>
        /\ last.raised = ""
        /\ \E row \in WhereRollNo(students, last.rollno) :
              \A subject \in Subjects :
                  Contains(last.ret, subject)
                      <=> (0 < row[subject] /\ row[subject] < last.threshold)

\* the part of C1 that holds: a call that returns a list reports a subject
\* if and only if its stored score s satisfies 0 < s < t.
C1_ReturnedListIsStrictlyBetween ==
    (/\ last.op = "get_weak_subjects"
     /\ student_exists(students, last.rollno)
     /\ last.raised = "") =>
        \E row \in WhereRollNo(students, last.rollno) :
            \A subject \in Subjects :
                Contains(last.ret, subject)
                    <=> (0 < row[subject] /\ row[subject] < last.threshold)

\* C2: an update for a RollNo that has no stored row ends in an error (the
\* error result of update_student_data, the ValueError of update_student)
\* and leaves the students table as it was.
C2_UpdateAbsentIsErrorAndNoMutation ==
    [][/\ (/\ last'.op = "update_student_data"
           /\ ~student_exists(students, last'.rollno))
          => /\ students' = students
             /\ last'.raised = ""
             /\ last'.ret.status = "error"
       /\ (/\ last'.op = "update_student"
           /\ "RollNo" \in DOMAIN last'.student
           /\ ~student_exists(students, last'.student["RollNo"]))
          => /\ students' = students
             /\ last'.raised = "ValueError"]_vars

\* update_student has raised for an absent RollNo on a table that holds a row
C2_Witness ==
    /\ last.op = "update_student"
    /\ last.raised = "ValueError"
    /\ "RollNo" \in DOMAIN last.student
    /\ ~student_exists(students, last.student["RollNo"])
    /\ students # EmptyBag

\* C4: get_student right after the insert of a RollNo that was not stored
\* returns the RollNo, Name, Grade, Language and six scores inserted (0 for a
\* score that was not supplied) and a TimeStamp that is present and not None.
C4_InsertThenGetRoundTrip ==
    (last.op = "get_student" /\ last.inserted # EmptyDict) =>
        /\ last.ret # EmptyDict
        /\ \A k \in {"RollNo", "Name", "Grade", "Language"} :
              last.ret[k] = last.inserted[k]
        /\ \A subject \in Subjects :
              last.ret[subject] = Get(last.inserted, subject, 0)
        /\ "TimeStamp" \in DOMAIN last.ret
        /\ last.ret["TimeStamp"] # NoneStr

\* at most one row for each RollNo
UniqueRollNo(tbl) == \A rollno \in RollNos : CountRollNo(tbl, rollno) <= 1

\* C5 as stated: in every reachable state the students table holds at most
\* one row for each RollNo.
C5_AtMostOneRowPerRollNo == UniqueRollNo(students)

\* C5 as amended: no call other than an insert for a RollNo that is already
\* stored breaks the uniqueness of RollNo; update_student adds no row.
C5_UniqueUnlessDuplicateInsert ==
    [][(/\ UniqueRollNo(students)
        /\ ~(/\ last'.op \in {"insert_student", "save_student_data"}
             /\ "RollNo" \in DOMAIN last'.student
             /\ student_exists(students, last'.student["RollNo"])))
       => UniqueRollNo(students')]_vars

\* two students with different RollNos and an update that went through
C5_Witness ==
    /\ last.op \in {"update_student", "update_student_data"}
    /\ last.raised = ""
    /\ BagCardinality(students) = 2
    /\ UniqueRollNo(students)

\* C6: an insert with a RollNo that is already stored (and the required
\* fields present) raises nothing and adds one row for that RollNo.
C6_DuplicateInsertAddsRow ==
    [][\A rollno \in RollNos :
          (/\ last'.op \in {"insert_student", "save_student_data"}
           /\ MissingRequired(last'.student) = ""
           /\ last'.student["RollNo"] = rollno
           /\ student_exists(students, rollno))
          => /\ last'.raised = ""
             /\ CountRollNo(students', rollno) = CountRollNo(students, rollno) + 1]_vars

\* save_student_data has returned success for a stored RollNo: two rows
C6_Witness ==
    /\ last.op = "save_student_data"
    /\ last.raised = ""
    /\ last.ret = [state |-> "success"]
    /\ ~last.fresh
    /\ CountRollNo(students, last.student["RollNo"]) = 2

\* C15: an insert with a missing required field (RollNo, Name, Language)
\* ends in an error that reaches the caller as a tagged error result, never
\* as an exception, and stores no row.
C15_MissingFieldIsTaggedError ==
    (/\ last.op \in {"insert_student", "save_student_data"}
     /\ MissingRequired(last.student) # "")
    => last.raised = ""

\* the columns update_student merges
MergedFields == {"Name", "Grade", "Language"} \cup Subjects

\* the dict the update that has just succeeded passed to update_student
UpdatedWith(call) == call.student

\* the step is an update of a stored RollNo that has succeeded
UpdateSucceeded ==
    \/ last'.op = "update_student" /\ last'.raised = ""
    \/ /\ last'.op = "update_student_data"
       /\ last'.raised = ""
       /\ last'.ret.status = "success"

\* the number of rows of the RollNo that hold the value v in the column f
CountValue(tbl, rollno, f, v) ==
    BagCardinality(RowsBag(tbl, {row \in WhereRollNo(tbl, rollno) : row[f] = v}))

\* C14 (as claimed): update_student on an existing RollNo merges: every
\* field supplied takes the supplied value, every field not supplied keeps
\* its prior stored value in every row, RollNo is unchanged, and TimeStamp is
\* set to the time of the update whatever TimeStamp the caller supplies.
C14_UpdateMergesEveryRow ==
    [][UpdateSucceeded
       => LET student == UpdatedWith(last')
              rollno == student["RollNo"]
          IN  /\ CountRollNo(students', rollno) = CountRollNo(students, rollno)
              /\ \A row \in WhereRollNo(students', rollno) :
                    /\ row.TimeStamp = last'.now
                    /\ \A f \in MergedFields \cap DOMAIN student : row[f] = student[f]
              /\ \A f \in MergedFields \ DOMAIN student :
                    \A old \in WhereRollNo(students, rollno) :
                        CountValue(students', rollno, f, old[f])
                            = CountValue(students, rollno, f, old[f])]_vars

\* C14 (amended): update_student on an existing RollNo makes every row of
\* the RollNo the merge of the supplied fields over the row its get_student
\* returned: supplied fields take the supplied value, fields not supplied
\* take the value of that row (their prior value when the RollNo has one
\* row and that row has not been written since it was read), the number of
\* rows and the rows of other RollNos are unchanged, and TimeStamp is the
\* time of the update whatever TimeStamp is supplied.
C14_UpdateMergesOverTheRowRead ==
    [][UpdateSucceeded
       => LET student == UpdatedWith(last')
              rollno == student["RollNo"]
              existing == last'.existing
          IN  /\ CountRollNo(students', rollno) = CountRollNo(students, rollno)
              /\ RowsBag(students', BagToSet(students') \ WhereRollNo(students', rollno))
                    = RowsBag(students, BagToSet(students) \ WhereRollNo(students, rollno))
              /\ \A row \in WhereRollNo(students', rollno) :
                    /\ row.TimeStamp = last'.now
                    /\ \A f \in MergedFields \cap DOMAIN student :
                          row[f] = student[f]
                    /\ \A f \in MergedFields \ DOMAIN student :
                          row[f] = existing[f]
              /\ (/\ CountRollNo(students, rollno) = 1
                  /\ existing \in get_student(students, rollno))
                 => \A f \in MergedFields \ DOMAIN student :
                       \A old \in WhereRollNo(students, rollno) :
                          \A row \in WhereRollNo(students', rollno) : row[f] = old[f]]_vars

\* update_student with a Maths score has succeeded on the one row of RollNo
\* 1 after another call had written the row it had read: the row has the new
\* Maths score, the time of the update, and the Science score that was read,
\* not the one the other call had stored
C14_Witness ==
    /\ last.op = "update_student"
    /\ last.raised = ""
    /\ last.stale
    /\ DOMAIN last.student = {"RollNo", "Maths"}
    /\ last.now = 2
    /\ CountRollNo(students, 1) = 1
    /\ \E row \in WhereRollNo(students, 1) :
          /\ row.Maths = ProfileB.Maths
          /\ row.Name = ProfileA.Name
          /\ row.Science = ProfileA.Science
          /\ row.TimeStamp = 2

----------------------------------------------------------------------------
(* Properties of the teachers table (specification SpecTeacher).           *)

\* C3: update_teacher_profile for a StaffID that has no stored row, with at
\* least one field supplied, returns a failure and not success.
C3_UpdateAbsentTeacherFails ==
    (/\ last.op = "update_teacher_profile"
     /\ ~last.existed
     /\ \/ last.args.name # NoneName
        \/ last.args.grades # NoneList
        \/ last.args.subject # NoneName)
    => last.ret.success = FALSE

----------------------------------------------------------------------------
(* Properties of the link filter (specification SpecFilter).               *)

\* the candidate is accepted: it has a non-empty link whose normalized form
\* contains youtube.com or youtu.be and answers HEAD with 200
Accepted(video, head) ==
    LET link == Get(video, "video_link", <<>>)
    IN  /\ link # <<>>
        /\ \/ ContainsSeq(NormalizeLink(link), <<"youtube.com">>)
           \/ ContainsSeq(NormalizeLink(link), <<"youtu.be">>)
        /\ RequestsHead(NormalizeLink(link), head) = StatusOK

\* the accepted candidates of a list, in the order of the list, each with
\* its link in the normalized form
AcceptedInOrder(videos, head) ==
    LET Keep(video) == Accepted(video, head)
        kept == SelectSeq(videos, Keep)
    IN  [j \in 1..Len(kept) |->
            [kept[j] EXCEPT !["video_link"] = NormalizeLink(kept[j]["video_link"])]]

\* C10: filter_videos_with_valid_links returns exactly the candidates whose
\* normalized link contains a video-host marker and answers HEAD with 200,
\* in their original relative order; a candidate with a missing or empty
\* link, a link without the marker or an unreachable link is not returned.
C10_FilterReturnsAcceptedInOrder ==
    (last.op = "filter_videos_with_valid_links" /\ last.raised = "")
    => last.ret = AcceptedInOrder(last.videos, reach)

\* the filter has been given a link of another host and then a reachable
\* video link, and has returned exactly the second
C10_Witness ==
    /\ last.op = "filter_videos_with_valid_links"
    /\ last.raised = ""
    /\ last.videos = <<VOther, VLong>>
    /\ reach[LongAbc] = StatusOK
    /\ last.ret = <<VLong>>

\* C11: filter_videos_with_valid_links never raises: for every input list,
\* with empty, missing, non-string or misplaced-marker links and with
\* reachability checks that raise a network error, it returns a list.
C11_FilterNeverRaises ==
    last.op = "filter_videos_with_valid_links" => last.raised = ""

\* the link has the form https://www.youtube.com/watch?v=<id>
IsCanonical(link) ==
    /\ Len(link) > Len(WatchUrl(<<>>))
    /\ SubSeq(link, 1, Len(WatchUrl(<<>>))) = WatchUrl(<<>>)

\* C12: every link in the list filter_videos_with_valid_links returns has the
\* canonical long form https://www.youtube.com/watch?v=<id>; no accepted
\* candidate keeps a short-form or non-https link.
C12_OutputLinksAreCanonical ==
    (last.op = "filter_videos_with_valid_links" /\ last.raised = "")
    => \A j \in 1..Len(last.ret) : IsCanonical(last.ret[j]["video_link"])

----------------------------------------------------------------------------
(* Properties of the class averages (specification SpecClass).             *)

\* the stored students of a grade that have a score for the subject
Scored(grade, subject) ==
    {row \in BagToSet(students) : row.Grade = grade /\ row[subject] # None}

\* the number of rows in a set of rows of the students table, and the sum
\* of their scores
RECURSIVE RowCount(_)
RowCount(S) ==
    IF S = {} THEN 0
    ELSE LET row == CHOOSE r \in S : TRUE
         IN  students[row] + RowCount(S \ {row})
RECURSIVE ScoreTotal(_, _)
ScoreTotal(S, subject) ==
    IF S = {} THEN 0
    ELSE LET row == CHOOSE r \in S : TRUE
         IN  students[row] * row[subject] + ScoreTotal(S \ {row}, subject)

\* the hundredths that total / n rounds to under the usual rules, a half
\* going up or a half going to the even hundredth
RoundedMean(total, n) ==
    LET q == (100 * total) \div n
        r == (100 * total) % n
    IN  IF 2 * r < n THEN {q}
        ELSE IF 2 * r > n THEN {q + 1}
        ELSE IF q % 2 = 0 THEN {q, q + 1} ELSE {q + 1}

\* round(total / n, 2) as CPython evaluates it, in hundredths, for means
\* that lie halfway between two hundredths: <<n, total, hundredths>>
PythonRounds ==
    {<<8, 1, 12>>, <<8, 3, 38>>, <<8, 5, 62>>,
     <<40, 1, 3>>, <<40, 3, 7>>, <<40, 5, 12>>,
     <<8, 401, 5012>>, <<8, 403, 5038>>, <<8, 405, 5062>>,
     <<40, 2001, 5002>>, <<40, 2003, 5008>>, <<40, 2005, 5012>>}

\* C16: get_class_average(grade, subject) on success returns
\* student_count = the number of stored students of the grade with a non-null
\* score for the subject, min_score and max_score = the least and the
\* greatest of those scores, average_score = their mean rounded to 2
\* decimals; three grade-5 students with Maths 40, 60, 80 give 60.00, 3, 40,
\* 80.
C16_ClassAverageStatistics ==
    (last.op = "get_class_average" /\ last.ret.success)
    => LET S == Scored(last.grade, last.subject)
           n == RowCount(S)
           total == ScoreTotal(S, last.subject)
           ret == last.ret
       IN  /\ ret.student_count = n
           /\ n > 0
           /\ \E row \in S : row[last.subject] = ret.min_score
           /\ \E row \in S : row[last.subject] = ret.max_score
           /\ \A row \in S : /\ ret.min_score <= row[last.subject]
                              /\ row[last.subject] <= ret.max_score
           /\ ret.average_score \in RoundedMean(total, n)
           /\ (n = 3 /\ {row[last.subject] : row \in S} = {40, 60, 80})
              => ret.average_score = 6000

\* what holds of C16 in the code: get_class_average on success returns
\* student_count = the number of stored students of the grade with a non-null
\* score for the subject, min_score and max_score = the least and the
\* greatest of those scores, average_score = a hundredth nearest to their
\* mean; a mean that lies halfway between two hundredths goes to the one
\* Python's round gives for the float that holds the mean, which is not
\* always the upper or the even one (3/40 = 0.075 gives 0.07, 1/40 = 0.025
\* gives 0.03); three grade-5 students with Maths 40, 60, 80 give 60.00, 3,
\* 40, 80.
C16_ClassAverageIsNearestHundredth ==
    (last.op = "get_class_average" /\ last.ret.success)
    => LET S == Scored(last.grade, last.subject)
           n == RowCount(S)
           total == ScoreTotal(S, last.subject)
           ret == last.ret
       IN  /\ ret.student_count = n
           /\ n > 0
           /\ \E row \in S : row[last.subject] = ret.min_score
           /\ \E row \in S : row[last.subject] = ret.max_score
           /\ \A row \in S : /\ ret.min_score <= row[last.subject]
                              /\ row[last.subject] <= ret.max_score
           /\ 2 * (ret.average_score * n - 100 * total) <= n
           /\ 2 * (100 * total - ret.average_score * n) <= n
           /\ 2 * ((100 * total) % n) # n
              => ret.average_score \in RoundedMean(total, n)
           /\ \A x \in PythonRounds :
                 (n = x[1] /\ total = x[2]) => ret.average_score = x[3]
           /\ (n = 3 /\ {row[last.subject] : row \in S} = {40, 60, 80})
              => ret.average_score = 6000

\* the class average of Maths of a class of 40 students whose scores add up
\* to 3: the mean is 0.075 and the average returned 0.07
C16_Witness ==
    /\ last.op = "get_class_average"
    /\ last.subject = "Maths"
    /\ RowCount(Scored(last.grade, "Maths")) = 40
    /\ ScoreTotal(Scored(last.grade, "Maths"), "Maths") = 3
    /\ last.ret = [success |-> TRUE, grade |-> 8, subject |-> "Maths",
                   average_score |-> 7, student_count |-> 40,
                   min_score |-> 0, max_score |-> 1]

\* C17 (as claimed): get_class_average for a grade in which no student has a
\* non-null score for the subject returns the error result of no students
\* found, never a success result that carries an average.
C17_NoStudentsIsError ==
    (/\ last.op = "get_class_average"
     /\ last.subject \in Subjects
     /\ Scored(last.grade, last.subject) = {})
    => /\ last.ret.success = FALSE
       /\ "average_score" \notin DOMAIN last.ret
       /\ last.ret.message = "No students found"

\* C17 (amended): get_class_average for a grade in which no student has a
\* non-null score for the subject returns an error result, never a success
\* result that carries an average: the error of no students found when its
\* query is answered, and the error of the failed calculation when the query
\* raises, as it does on a dataset whose students table does not exist.
C17_NoStudentsIsAnError ==
    (/\ last.op = "get_class_average"
     /\ last.subject \in Subjects
     /\ Scored(last.grade, last.subject) = {})
    => /\ last.ret.success = FALSE
       /\ "average_score" \notin DOMAIN last.ret
       /\ last.query = "answered" => last.ret.message = "No students found"
       /\ last.query = "raised"
          => last.ret.message = "Error calculating class average"
       /\ "students" \notin tables => last.query = "raised"

\* the class average of Maths was asked for grade 5, whose only stored
\* student has a null Maths score
C17_Witness ==
    /\ last.op = "get_class_average"
    /\ last.grade = 5
    /\ last.subject = "Maths"
    /\ \E row \in BagToSet(students) : row.Grade = 5 /\ row.Maths = None
    /\ last.ret = [success |-> FALSE, message |-> "No students found"]

\* the step ends a get_class_average with a subject outside the six names
InvalidSubjectCall ==
    last'.op = "get_class_average" /\ last'.subject \notin Subjects

\* C18 (as claimed): get_class_average with a subject that is not one of the
\* six names returns the error of an invalid subject before any query is
\* issued to the store, and leaves the store unchanged: neither the call
\* nor the constructor it began with has changed a table.
C18_InvalidSubjectLeavesStoreUnchanged ==
    [][InvalidSubjectCall
       => /\ last'.ret = [success |-> FALSE, message |-> "Invalid subject"]
          /\ \A i \in 1..Len(last'.requests) : last'.requests[i] # "SELECT students"
          /\ ~last'.created
          /\ UNCHANGED <<students, teachers, recs, results, tables>>]_vars

\* C18 (amended): get_class_average with a subject that is not one of the
\* six names returns the error of an invalid subject without any query on
\* the students table and leaves the rows of every table unchanged; the only
\* request it makes is the create_table of the TeacherDatabase constructor
\* the call begins with, which creates the empty teachers table when it does
\* not exist and the request does not fail, and changes nothing otherwise.
C18_InvalidSubjectOnlyCreatesTeachersTable ==
    [][/\ InvalidSubjectCall
          => /\ last'.ret = [success |-> FALSE, message |-> "Invalid subject"]
             /\ last'.requests = <<"create_table teachers">>
             /\ UNCHANGED <<students, teachers, recs, results, tables>>
             /\ last'.created => "teachers" \in tables
       /\ \A c \in CallIds :
             (calls'[c] # calls[c] /\ calls'[c].pc = "constructed")
             => /\ UNCHANGED <<students, teachers, recs, results>>
                /\ tables' \in {tables, tables \cup {calls'[c].store}}
                /\ calls'[c].created = (tables' # tables)
                /\ last'.outcome = "answered" => calls'[c].store \in tables'
                /\ last'.outcome = "failed" => tables' = tables]_vars

\* the class average of "maths" was asked for grade 5, which has a stored
\* student with a Maths score, and the subject was refused
C18_Witness ==
    /\ last.op = "get_class_average"
    /\ last.subject = "maths"
    /\ last.grade = 5
    /\ Scored(5, "Maths") # {}
    /\ last.ret.message = "Invalid subject"

----------------------------------------------------------------------------
(* Properties of store_results (specification SpecScores).                 *)

Min(a, b) == IF a <= b THEN a ELSE b
Max(a, b) == IF a >= b THEN a ELSE b

\* the row the last store_results has inserted
StoredResult ==
    CHOOSE row \in BagToSet(results) :
        /\ row.RollNo = last.rollno
        /\ row.QuizScore = last.quiz_score
        /\ row.EvaluatedScore = last.evaluated_score

\* C13: store_results persists TotalScore = round((quiz_score +
\* evaluated_score) / 2) with a half rounded to even: it is (q+e)/2 when q+e
\* is even, the even one of the two adjacent integers when q+e is odd, and
\* lies in [min(q,e), max(q,e)] and in 0..100; (80,60) gives 70, (0,0) gives
\* 0 and (100,100) gives 100.
C13_TotalScoreIsRoundedMean ==
    last.op = "store_results"
    => LET q == last.quiz_score
           e == last.evaluated_score
           total == StoredResult.TotalScore
       IN  /\ BagCardinality(results) = 1
           /\ (q + e) % 2 = 0 => 2 * total = q + e
           /\ (q + e) % 2 = 1 => /\ 2 * total \in {q + e - 1, q + e + 1}
                                 /\ total % 2 = 0
           /\ Min(q, e) <= total /\ total <= Max(q, e)
           /\ total \in 0..100
           /\ (q = 80 /\ e = 60) => total = 70
           /\ (q = 0 /\ e = 0) => total = 0
           /\ (q = 100 /\ e = 100) => total = 100

\* scores with an odd sum whose half lies next to an odd integer have been
\* stored: 81 and 60 give 70
C13_Witness ==
    /\ last.op = "store_results"
    /\ last.quiz_score = 81
    /\ last.evaluated_score = 60
    /\ StoredResult.TotalScore = 70

----------------------------------------------------------------------------
(* Properties of the recommendations table (specification SpecRecs).       *)

\* the link, title and subject of a stored row or of a course read
Content(course) ==
    [link |-> course.VideoLink, title |-> course.VideoTitle,
     subject |-> course.VideoSubject]

\* the link, title and subject of a video of a validated list
ContentOfVideo(video) ==
    [link |-> video["video_link"], title |-> Get(video, "video_title", ""),
     subject |-> Get(video, "video_subject", "")]

\* the bag of the elements of a sequence
RECURSIVE SeqBag(_)
SeqBag(seq) ==
    IF seq = <<>> THEN EmptyBag ELSE SetToBag({Head(seq)}) (+) SeqBag(Tail(seq))

\* the contents of the rows of a bag of rows, with multiplicity
RECURSIVE ContentBag(_)
ContentBag(b) ==
    IF BagToSet(b) = {} THEN EmptyBag
    ELSE LET row == CHOOSE r \in BagToSet(b) : TRUE
         IN  [x \in {Content(row)} |-> b[row]]
                (+) ContentBag(RowsBag(b, BagToSet(b) \ {row}))

\* the contents of the first n videos of a list, and of the courses read
VideosContent(videos, n) == SeqBag([j \in 1..n |-> ContentOfVideo(videos[j])])
CoursesContent(courses) == SeqBag([j \in 1..Len(courses) |-> Content(courses[j])])

\* a read of the RollNo of the call c, made while the call has deleted the
\* old rows and has not yet inserted the last new one
ReadDuring(c) ==
    /\ last.op = "display_student_tutorials"
    /\ calls[c].pc = "insert"
    /\ calls[c].rollno = last.rollno

\* C7 (as claimed): a get_courses_for_student(rollno) that runs while
\* save_validated_videos replaces a non-empty old set by a non-empty new list
\* observes the complete old set or the complete new set, never an empty or
\* partially inserted set.
C7_ReaderSeesOldOrNew ==
    \A c \in CallIds :
        (ReadDuring(c) /\ calls[c].old # EmptyBag)
        => \/ CoursesContent(last.courses) = ContentBag(calls[c].old)
           \/ CoursesContent(last.courses) =
                VideosContent(calls[c].validated_videos, Len(calls[c].validated_videos))

\* C7 (amended): with one writer, a get_courses_for_student(rollno) that runs
\* after the delete of save_validated_videos and before its return observes
\* exactly the rows of the videos inserted so far, a prefix of the new list
\* that may be empty or partial; it never observes a row of the old set.
C7_ReaderSeesPrefixOfNew ==
    \A c \in CallIds :
        ReadDuring(c)
        => CoursesContent(last.courses) =
              VideosContent(calls[c].validated_videos, calls[c].k - 1)

\* a reader has seen one row of a new list of two while the old set, which
\* held another video, was being replaced
C7_Witness ==
    /\ ReadDuring(1)
    /\ calls[1].old # EmptyBag
    /\ Len(calls[1].validated_videos) = 2
    /\ calls[1].k = 2
    /\ Len(last.courses) = 1
    /\ \E row \in BagToSet(calls[1].old) :
          row.VideoLink # calls[1].validated_videos[1]["video_link"]

\* C8: after save_validated_videos(rollno, name, videos) has run to completion
\* with no concurrent writer, the stored rows of rollno are exactly one row
\* per element of videos, with the same link, title and subject; no row of
\* an earlier set of that rollno remains.
C8_RowsAreExactlyTheList ==
    \A c \in CallIds :
        calls[c].pc = "done"
        => /\ ContentBag(RowsBag(recs, WhereRollNo(recs, calls[c].rollno)))
                = VideosContent(calls[c].validated_videos, Len(calls[c].validated_videos))
           /\ CountRollNo(recs, calls[c].rollno) = Len(calls[c].validated_videos)

\* a save of two videos has completed over an earlier set that held a video
\* the new list does not hold
C8_Witness ==
    /\ calls[1].pc = "done"
    /\ Len(calls[1].validated_videos) = 2
    /\ \E row \in BagToSet(calls[1].old) :
          \A j \in 1..2 : row.VideoLink # calls[1].validated_videos[j]["video_link"]
    /\ CountRollNo(recs, calls[1].rollno) = 2

\* C9: after filter_videos_with_valid_links followed by save_validated_videos,
\* no two stored recommendation rows of the same RollNo have the same
\* VideoLink, whatever the input list.
C9_NoTwoRowsShareVideoLink ==
    \A c \in CallIds :
        calls[c].pc = "done"
        => \A row \in WhereRollNo(recs, calls[c].rollno) :
              BagCardinality(RowsBag(recs,
                  {r \in WhereRollNo(recs, calls[c].rollno) :
                      r.VideoLink = row.VideoLink})) = 1

----------------------------------------------------------------------------
(* Properties of delete_student_courses (specification SpecDelete).        *)

\* C19: delete_student_courses(rollno) is idempotent: on a RollNo with no
\* recommendation row it succeeds without error and changes nothing, and a
\* second delete right after a delete of the same RollNo leaves the table as
\* the first one left it; a delete leaves no row of the RollNo and keeps the
\* rows of the other RollNos.
C19_DeleteIsIdempotent ==
    [][last'.op = "delete_student_courses"
       => /\ last'.raised = ""
          /\ WhereRollNo(recs', last'.rollno) = {}
          /\ WhereRollNo(recs, last'.rollno) = {} => recs' = recs
          /\ (last.op = "delete_student_courses" /\ last.rollno = last'.rollno)
             => recs' = recs
          /\ \A row \in BagToSet(recs) :
                row.RollNo # last'.rollno
                => row \in BagToSet(recs') /\ recs'[row] = recs[row]]_vars

\* delete_student_courses has been called a second time in a row for a
\* RollNo, found no row of it, and the rows of another RollNo are in place
C19_Witness ==
    /\ last.op = "delete_student_courses"
    /\ "repeated" \in DOMAIN last
    /\ last.repeated
    /\ last.removed = 0
    /\ recs # EmptyBag

----------------------------------------------------------------------------
(* Properties of the results the tools return (specification Spec).        *)

\* the tools of the root agent that Spec calls
StudentTools == {"check_student", "save_student_data", "update_student_data"}

\* C20: every tool returns a tagged result: a dict with a field named status
\* whose value is success or error.
C20_ToolsReturnTaggedStatus ==
    (last.op \in StudentTools /\ last.raised = "")
    => /\ "status" \in DOMAIN last.ret
       /\ last.ret.status \in {"success", "error"}

----------------------------------------------------------------------------
(* Properties of the existence checks (specification SpecTeacher).         *)

\* C21: exists(key) is true iff a record with that key is present:
\* check_teacher(s).exists is true exactly when a teacher row with StaffID s
\* is stored, including when the store query fails.
C21_TeacherExistsIffStored ==
    last.op = "check_teacher"
    => (last.ret.exists <=> WhereStaffID(teachers, last.staff_id) # {})

----------------------------------------------------------------------------
(* Properties of the stored records (specification SpecRecords).           *)

\* the number of rows of the teachers table with the StaffID
CountStaffID(tbl, staff_id) == BagCardinality(RowsBag(tbl, WhereStaffID(tbl, staff_id)))

\* C22: student and teacher records are never deleted and their keys are
\* immutable: a RollNo (a StaffID) that exists keeps existing over every
\* step, and no step moves a stored row to another RollNo (StaffID), so the
\* number of rows of every key never goes down and the number of rows of a
\* table changes only by the one row a registration adds.
C22_RecordsKeepTheirKeys ==
    [][/\ \A rollno \in RollNos :
            /\ student_exists(students, rollno) => student_exists(students', rollno)
            /\ CountRollNo(students', rollno) >= CountRollNo(students, rollno)
       /\ \A staff_id \in StaffIDs :
            /\ teacher_exists(teachers, staff_id, "answered")
               => teacher_exists(teachers', staff_id, "answered")
            /\ CountStaffID(teachers', staff_id) >= CountStaffID(teachers, staff_id)
       /\ {row.RollNo : row \in BagToSet(students')} \subseteq RollNos
       /\ {row.StaffID : row \in BagToSet(teachers')} \subseteq StaffIDs
       /\ last'.op \in {"update_student_data", "update_teacher_profile"}
          => /\ BagCardinality(students') = BagCardinality(students)
             /\ BagCardinality(teachers') = BagCardinality(teachers)]_vars

\* an update has rewritten the row of a stored teacher while student rows
\* are stored as well
C22_Witness ==
    /\ last.op = "update_teacher_profile"
    /\ last.existed
    /\ last.ret.success
    /\ students # EmptyBag
    /\ \E row \in BagToSet(teachers) : row.StaffID = last.staff_id /\ row.Name = "Latha"

----------------------------------------------------------------------------
(* Properties of the test results (specification SpecResults).             *)

\* the stored results of the RollNo, with multiplicity
ResultsOf(tbl, rollno) == RowsBag(tbl, WhereRollNo(tbl, rollno))

\* C23: test results are append-only: each store_results call adds exactly
\* one row, the one of its arguments, no other operation changes the table,
\* and the multiset of results of every RollNo only grows.
C23_ResultsAreAppendOnly ==
    [][/\ last'.op = "store_results"
          => /\ BagCardinality(results') = BagCardinality(results) + 1
             /\ \E row \in BagToSet(results') :
                   /\ results' = results (+) SetToBag({row})
                   /\ row.RollNo = last'.rollno
                   /\ row.Subject = last'.subject
                   /\ row.QuizScore = last'.quiz_score
                   /\ row.EvaluatedScore = last'.evaluated_score
       /\ last'.op # "store_results" => results' = results
       /\ \A rollno \in RollNos :
             ResultsOf(results, rollno) \sqsubseteq ResultsOf(results', rollno)]_vars

\* a second result of the same RollNo in the same subject has been stored
\* next to the first one, and a read has returned both
C23_Witness ==
    /\ last.op = "get_subject_performance"
    /\ Len(last.ret) = 2
    /\ BagCardinality(results) = 2

----------------------------------------------------------------------------
(* Properties of the lazy table creation (specification SpecTables).       *)

\* C24: constructing a store, when its table exists or on a cold start,
\* never raises and leaves exactly one table of its name.
C24_ConstructionLeavesTheTable ==
    last.op = "construct"
    => /\ last.raised = ""
       /\ last.table \in tables

\* C24 (amended): constructing a store never raises, whatever the create
\* request does, and never drops or alters a stored row of any table; a
\* second construction meets Conflict, which is swallowed, and leaves the
\* one table as it is; the table of the store exists afterwards unless the
\* create request failed for another reason than the table existing, and
\* then the failure is swallowed as well and the tables are as before.
C24_ConstructionIsIdempotent ==
    [][last'.op = "construct"
       => /\ last'.raised = ""
          /\ students' = students /\ teachers' = teachers
          /\ recs' = recs /\ results' = results
          /\ last'.table \in tables => tables' = tables
          /\ last'.outcome = "answered" => tables' = tables \cup {last'.table}
          /\ last'.outcome = "failed" => tables' = tables
          /\ (last'.table \in tables /\ last'.outcome = "answered")
             => last'.caught = "Conflict"]_vars

\* a store has been constructed again over its table, which holds rows: the
\* create request was answered with Conflict
C24_Witness ==
    /\ last.op = "construct"
    /\ last.existed
    /\ last.caught = "Conflict"
    /\ RowsIn(Dataset, last.table) # EmptyBag

----------------------------------------------------------------------------
(* Properties of the teacher update (specification SpecTeacher).           *)

\* the argument was supplied with a value that is neither None nor empty
SuppliedStr(x) == x \notin {NoneName, ""}
SuppliedList(x) == x \notin {NoneList, <<>>}

\* the row new is the row old with the supplied fields of the arguments a
\* and the timestamp now, and everything else as it was
PartiallyUpdated(old, new, a, now) ==
    /\ new.StaffID = old.StaffID
    /\ new.Name = IF SuppliedStr(a.name) THEN a.name ELSE old.Name
    /\ new.Grades = IF SuppliedList(a.grades) THEN JsonDumps(a.grades) ELSE old.Grades
    /\ new.Subject = IF SuppliedStr(a.subject) THEN a.subject ELSE old.Subject
    /\ new.TimeStamp = now

\* C25 (as claimed): update_teacher changes exactly the fields among name,
\* grades and
\* subject that were supplied with a truthy value, plus TimeStamp, in the
\* rows of the StaffID, and leaves their other fields, their StaffID and
\* the rows of the other StaffIDs unchanged; when no field is supplied, or
\* all supplied values are empty or None, it returns the failure
\* 'No fields to update' and changes nothing, the timestamp included.
C25_TeacherUpdateIsPartial ==
    [][last'.op = "update_teacher_profile"
       => LET a == last'.args
              staff_id == last'.staff_id
          IN  IF ~SuppliedStr(a.name) /\ ~SuppliedList(a.grades) /\ ~SuppliedStr(a.subject)
              THEN /\ teachers' = teachers
                   /\ last'.ret.success = FALSE
                   /\ last'.ret.message = "No fields to update"
              ELSE /\ \A row \in BagToSet(teachers) :
                         row.StaffID # staff_id
                         => row \in BagToSet(teachers') /\ teachers'[row] = teachers[row]
                   /\ \A other \in StaffIDs :
                         CountStaffID(teachers', other) = CountStaffID(teachers, other)
                   /\ \A new \in WhereStaffID(teachers', staff_id) :
                         \E old \in WhereStaffID(teachers, staff_id) :
                            PartiallyUpdated(old, new, a, last'.now)
                   /\ \A old \in WhereStaffID(teachers, staff_id) :
                         \E new \in WhereStaffID(teachers', staff_id) :
                            PartiallyUpdated(old, new, a, last'.now)]_vars

\* C25 (amended): when no field is supplied, or all supplied values are
\* empty or None, update_teacher returns the failure 'No fields to update'
\* and changes nothing, the timestamp included; otherwise, when its UPDATE
\* is executed, it returns success and has changed exactly the fields among
\* name, grades and subject that were supplied with a truthy value, plus
\* TimeStamp, in the rows of the StaffID, and left their other fields, their
\* StaffID and the rows of the other StaffIDs unchanged; when its UPDATE
\* raises it returns the failure 'Error updating teacher' and changes
\* nothing.
C25_TeacherUpdateIsPartialOrFails ==
    [][last'.op = "update_teacher_profile"
       => LET a == last'.args
              staff_id == last'.staff_id
          IN  IF ~SuppliedStr(a.name) /\ ~SuppliedList(a.grades) /\ ~SuppliedStr(a.subject)
              THEN /\ teachers' = teachers
                   /\ last'.ret.success = FALSE
                   /\ last'.ret.message = "No fields to update"
              ELSE IF last'.query = "raised"
              THEN /\ teachers' = teachers
                   /\ last'.ret.success = FALSE
                   /\ last'.ret.message = "Error updating teacher"
              ELSE /\ last'.ret.success
                   /\ \A row \in BagToSet(teachers) :
                         row.StaffID # staff_id
                         => row \in BagToSet(teachers') /\ teachers'[row] = teachers[row]
                   /\ \A other \in StaffIDs :
                         CountStaffID(teachers', other) = CountStaffID(teachers, other)
                   /\ \A new \in WhereStaffID(teachers', staff_id) :
                         \E old \in WhereStaffID(teachers, staff_id) :
                            PartiallyUpdated(old, new, a, last'.now)
                   /\ \A old \in WhereStaffID(teachers, staff_id) :
                         \E new \in WhereStaffID(teachers', staff_id) :
                            PartiallyUpdated(old, new, a, last'.now)]_vars

\* an update that supplied only the name has renamed the stored teacher and
\* kept the subject and the grades of the registration
C25_Witness ==
    /\ last.op = "update_teacher_profile"
    /\ last.existed
    /\ last.ret.success
    /\ last.args.name = "Latha"
    /\ last.args.subject = NoneName
    /\ \E row \in WhereStaffID(teachers, last.staff_id) :
          /\ row.Name = "Latha"
          /\ row.Subject = "Maths"
          /\ row.Grades = JsonDumps(<<5, 6>>)
          /\ row.TimeStamp = last.now

----------------------------------------------------------------------------
(* Properties of two concurrent saves (specification SpecWriters).         *)

\* both calls have completed, for the same RollNo
BothDone ==
    /\ calls[1].pc = "done"
    /\ calls[2].pc = "done"
    /\ calls[1].rollno = calls[2].rollno

\* the contents of the stored rows of the RollNo of the call c
StoredContent(c) == ContentBag(RowsBag(recs, WhereRollNo(recs, calls[c].rollno)))

\* the contents of the whole list of the call c
ListContent(c) ==
    VideosContent(calls[c].validated_videos, Len(calls[c].validated_videos))

\* the contents of the videos of the list of the call c from the position
\* from on
SuffixContent(c, from) ==
    SeqBag([j \in 1..(Len(calls[c].validated_videos) + 1 - from) |->
              ContentOfVideo(calls[c].validated_videos[from + j - 1])])

\* C26: two save_validated_videos calls for the same RollNo are
\* serializable: once both have completed, the stored rows of the RollNo
\* are the list of exactly one of the two calls, never a mixture.
C26_TwoSavesAreSerializable ==
    BothDone => (StoredContent(1) = ListContent(1) \/ StoredContent(1) = ListContent(2))

\* C26 (amended): two save_validated_videos calls for the same RollNo are
\* not serializable: once both have completed, the stored rows of the RollNo
\* are the whole list of one call together with a suffix of the list of the
\* other, the videos that call inserted after the delete of the first one;
\* the suffix may be empty, and it may be the whole list, so the rows can be
\* the union of both lists.
C26_TwoSavesLeaveOneListAndASuffix ==
    BothDone
    => \E c \in CallIds, d \in CallIds :
          /\ c # d
          /\ \E from \in 1..(Len(calls[d].validated_videos) + 1) :
                StoredContent(c) = ListContent(c) (+) SuffixContent(d, from)

\* both calls have completed for the same RollNo with lists of two videos
\* and three rows are stored: one list and the last video of the other
C26_Witness ==
    /\ BothDone
    /\ Len(calls[1].validated_videos) = 2
    /\ Len(calls[2].validated_videos) = 2
    /\ CountRollNo(recs, calls[1].rollno) = 3

----------------------------------------------------------------------------
(* Properties of a save that fails (specification SpecSaveFails).          *)

\* C27: save_validated_videos has no rollback: when insert_recommendation
\* raises on the k-th video the exception reaches the caller, the rows the
\* RollNo had before the call stay deleted, and the stored rows of the
\* RollNo are exactly the first k-1 videos of the new list; no step of the
\* call changes a row of another RollNo, and its constructor changes no row.
C27_FailedSaveKeepsThePrefix ==
    /\ [](calls[1].pc = "raised"
           => /\ last.op = "save_validated_videos"
              /\ last.raised = "Exception"
              /\ StoredContent(1) = VideosContent(calls[1].validated_videos, calls[1].k - 1)
              /\ CountRollNo(recs, calls[1].rollno) = calls[1].k - 1)
    /\ [][IF calls'[1].pc = "constructed"
          THEN recs' = recs
          ELSE \A rollno \in RollNos \ {calls'[1].rollno} :
                  RowsBag(recs', WhereRollNo(recs', rollno))
                     = RowsBag(recs, WhereRollNo(recs, rollno))]_vars

\* the insert of the second video of a list has raised, after the call had
\* deleted an earlier set of the RollNo, while another RollNo has rows
C27_Witness ==
    /\ calls[1].pc = "raised"
    /\ calls[1].k = 2
    /\ calls[1].old # EmptyBag
    /\ CountRollNo(recs, calls[1].rollno) = 1
    /\ \E row \in BagToSet(recs) : row.RollNo # calls[1].rollno

----------------------------------------------------------------------------
(* Properties of a second run of the filter (specification SpecFilter).    *)

\* C28: filter_videos_with_valid_links is idempotent under a fixed
\* reachability oracle: run on the list it has returned, it returns that
\* list again, with the same candidates in the same order and the same
\* links, and it raises nothing.
C28_FilterIsIdempotent ==
    (last.op = "filter_videos_with_valid_links" /\ last.again)
    => /\ last.raised = ""
       /\ last.ret = last.videos
       /\ last.ret = AcceptedInOrder(last.searched, reach)

\* the filter has run a second time on a list of two whose first link it
\* had rewritten from the short form
C28_Witness ==
    /\ last.op = "filter_videos_with_valid_links"
    /\ last.again
    /\ Len(last.searched) = 2
    /\ last.searched[1] = VShort
    /\ Len(last.ret) = 2
    /\ last.ret[1]["video_link"] = LongAbc

----------------------------------------------------------------------------
(* Properties of the input list of the filter (specification SpecFilter).  *)

\* the record after differs from the record before in no field but
\* video_link
SameButLink(before, after) ==
    /\ DOMAIN after = DOMAIN before
    /\ \A k \in DOMAIN before \ {"video_link"} : after[k] = before[k]

\* C29: filter_videos_with_valid_links leaves the length and the order of
\* its input list unchanged and leaves every rejected candidate record
\* unchanged; of an accepted candidate it changes the field video_link only,
\* which it overwrites in the caller's record with the normalized link.
C29_FilterChangesOnlyAcceptedLinks ==
    (last.op = "filter_videos_with_valid_links" /\ last.raised = "")
    => /\ Len(last.after) = Len(last.videos)
       /\ \A i \in 1..Len(last.videos) :
             IF Accepted(last.videos[i], reach)
             THEN /\ SameButLink(last.videos[i], last.after[i])
                  /\ last.after[i]["video_link"]
                        = NormalizeLink(last.videos[i]["video_link"])
             ELSE last.after[i] = last.videos[i]

\* the filter has accepted a short link and rejected a link of another
\* host: the first record of the input now holds the long link, the second
\* is as it was
C29_Witness ==
    /\ last.op = "filter_videos_with_valid_links"
    /\ last.raised = ""
    /\ last.videos = <<VShort, VOther>>
    /\ last.after[1]["video_link"] = LongAbc
    /\ last.after[1]["video_link"] # last.videos[1]["video_link"]
    /\ last.after[2] = VOther
    /\ Len(last.ret) = 1

----------------------------------------------------------------------------
(* Properties of a score of 0 (specification SpecZero).                    *)

\* the stored rows of the grade whose score in the subject is 0
ZeroScored(grade, subject) ==
    {row \in BagToSet(students) : row.Grade = grade /\ row[subject] = 0}

====
